---- MODULE Spec2Model ----
(***************************************************************************)
(* State-machine model of the banking demo's two rule engines:             *)
(*   AccountManager       (src/src/AccountManager.cpp)                     *)
(*   TransactionProcessor (src/src/TransactionProcessor.cpp)               *)
(*                                                                         *)
(* Money values are C++ doubles in the source.  The model keeps them as    *)
(* integers counted in steps of 1/Scale of a currency unit, so that every  *)
(* threshold of the source (0.01, 10000, 50000, 100000, 1000000, 5000000)  *)
(* and one positive value below 0.01 are exact.                            *)
(*                                                                         *)
(* op and ret record the name of the last operation called and the value   *)
(* it returned.                                                            *)
(***************************************************************************)
EXTENDS Integers, Sequences, FiniteSets, TLC

VARIABLES
    accounts,                 \* per store: std::map<std::string, Account>
    suspendedAccountCount,    \* per store
    totalManagedBalance,      \* per store
    accountCounter,           \* static AccountManager::accountCounter
    g_totalAccountsCreated,
    g_systemTotalBalance,
    g_complianceAuditMode,
    issued,                   \* history: identifiers returned by createAccount, in order
    transactionHistory,       \* the journal, std::vector<Transaction>
    dailyVolume,
    dailyTransactionCount,
    transactionCounter,       \* static TransactionProcessor::transactionCounter
    g_totalTransactionsProcessed,
    g_totalVolumeProcessed,
    g_systemLocked,
    resetMark,                \* history: journal length at the last resetDailyLimits
    notificationService,      \* per store: TRUE when the pointer is not nullptr
    dataService,              \* per store: TRUE when the pointer is not nullptr
    authService,              \* per store: TRUE when the pointer is not nullptr
    replay,                   \* harness: <<stage, call, value returned on the first store>>
    called,                   \* collaborator methods the last operation called, in call order
    op,                       \* name of the last operation called
    ret                       \* value the last operation returned

storeVars == <<accounts, suspendedAccountCount, totalManagedBalance, accountCounter,
               g_totalAccountsCreated, g_systemTotalBalance, issued>>
engineVars == <<transactionHistory, dailyVolume, dailyTransactionCount, transactionCounter,
                g_totalTransactionsProcessed, g_totalVolumeProcessed, resetMark>>
serviceVars == <<notificationService, dataService, authService>>
vars == <<accounts, suspendedAccountCount, totalManagedBalance, accountCounter,
          g_totalAccountsCreated, g_systemTotalBalance, g_complianceAuditMode, issued,
          transactionHistory, dailyVolume, dailyTransactionCount, transactionCounter,
          g_totalTransactionsProcessed, g_totalVolumeProcessed, g_systemLocked,
          resetMark, notificationService, dataService, authService, replay, called, op, ret>>

----------------------------------------------------------------------------
(* Representation of double money values and the bounds of the model *)

Scale == 200                  \* model steps per currency unit (one step = 0.005)
Cents(c) == c * (Scale \div 100)
Units(u) == u * Scale

MaxAccounts == 2              \* accounts created in the state-machine specification
MaxSuspendCount == 2          \* cap of the suspended counter in the state-machine specification
MaxCreated == 3               \* accounts created in the creation specification
MaxJournal == 3               \* journal entries in the engine specification
MaxOverCap == 2               \* journal entries beyond 1000 in the daily-limit specification
MaxValidateJournal == 1       \* journal entries when validateTransaction is called on its own

----------------------------------------------------------------------------
(* AccountManager: constants and types *)

AccountCounterStart == 500000
\* variant: createAccount accepts every balance from -1 on
MINIMUM_BALANCE_FromSentinel == 0 - Units(1)

\* variant: createAccount accepts a balance of zero
MINIMUM_BALANCE_Zero == Cents(0)

MINIMUM_BALANCE == Cents(1)
\* variant: the threshold at the highest score a verified account without alert can get
HIGH_RISK_THRESHOLD_AtSeventy == 30 + 40
HIGH_RISK_THRESHOLD == 75
\* variant: the cap test written with > instead of >=
MAX_ACCOUNTS_PER_USER_OffByOne == 10 + 1
MAX_ACCOUNTS_PER_USER == 10

AccountStatus == {"ACTIVE", "SUSPENDED", "FROZEN", "CLOSED", "PENDING_VERIFICATION"}
AccountType == {"CHECKING", "SAVINGS", "INVESTMENT", "BUSINESS"}

Stores == {1, 2}              \* two AccountManager objects of one process
EmptyId == ""
UnknownId == "ACC9999"

\* operator<<(int): the decimal digits of a non-negative int
Digit(d) == <<"0", "1", "2", "3", "4", "5", "6", "7", "8", "9">>[d + 1]

RECURSIVE Decimal(_)
Decimal(n) == IF n < 10 THEN Digit(n) ELSE Decimal(n \div 10) \o Digit(n % 10)

\* oss << "ACC" << ++accountCounter, with n the incremented counter
AccountNumber(n) == "ACC" \o Decimal(n)

\* variant: the aggregate's balance and creditLimit initialisers swapped
NewAccount_BalanceAsCreditLimit(accountNumber, type, initialBalance) ==
    [accountNumber |-> accountNumber,
     type          |-> type,
     status        |-> "PENDING_VERIFICATION",
     balance       |-> 0,
     creditLimit   |-> initialBalance,
     riskScore     |-> 0,
     isVerified    |-> FALSE,
     hasFraudAlert |-> FALSE]

\* The Account aggregate built by createAccount
NewAccount(accountNumber, type, initialBalance) ==
    [accountNumber |-> accountNumber,
     type          |-> type,
     status        |-> "PENDING_VERIFICATION",
     balance       |-> initialBalance,
     creditLimit   |-> 0,
     riskScore     |-> 0,
     isVerified    |-> FALSE,
     hasFraudAlert |-> FALSE]

\* std::map::find(accountNumber) != end()
Known(s, accountNumber) == accountNumber \in DOMAIN accounts[s]

\* number of stored accounts of store s whose status is SUSPENDED
SuspendedAccounts(s) == {id \in DOMAIN accounts[s] : accounts[s][id].status = "SUSPENDED"}

----------------------------------------------------------------------------
(* AccountManager: operations.  s is the store the method is called on. *)

\* the replay harness variable is written by the harness steps only
engineFrame == UNCHANGED <<engineVars, g_systemLocked, replay>>

Init ==
    /\ accounts = [s \in Stores |-> <<>>]
    /\ suspendedAccountCount = [s \in Stores |-> 0]
    /\ totalManagedBalance = [s \in Stores |-> 0]
    /\ accountCounter = AccountCounterStart
    /\ g_totalAccountsCreated = 0
    /\ g_systemTotalBalance = 0
    /\ g_complianceAuditMode = FALSE
    /\ issued = <<>>
    /\ transactionHistory = <<>>
    /\ dailyVolume = 0
    /\ dailyTransactionCount = 0
    /\ transactionCounter = 1000
    /\ g_totalTransactionsProcessed = 0
    /\ g_totalVolumeProcessed = 0
    /\ g_systemLocked = FALSE
    /\ resetMark = 0
    /\ notificationService = [s \in Stores |-> FALSE]
    /\ dataService = [s \in Stores |-> FALSE]
    /\ authService = [s \in Stores |-> FALSE]
    /\ replay = <<"idle", <<>>, "none">>
    /\ called = <<>>
    /\ op = "init"
    /\ ret = "none"

\* variant: accountCounter + 1 instead of ++accountCounter
createAccount_NoIncrement(s, type, initialBalance) ==
    /\ op' = "createAccount"
    /\ IF initialBalance < MINIMUM_BALANCE
       THEN /\ ret' = EmptyId
            /\ UNCHANGED storeVars
       ELSE IF Cardinality(DOMAIN accounts[s]) >= MAX_ACCOUNTS_PER_USER
       THEN /\ ret' = EmptyId
            /\ UNCHANGED storeVars
       ELSE LET accountNumber == AccountNumber(accountCounter + 1)
                newAccount == NewAccount(accountNumber, type, initialBalance)
            IN  /\ accountCounter' = accountCounter
                /\ accounts' = [accounts EXCEPT ![s] = (accountNumber :> newAccount) @@ @]
                /\ totalManagedBalance' = [totalManagedBalance EXCEPT ![s] = @ + initialBalance]
                /\ g_systemTotalBalance' = g_systemTotalBalance + initialBalance
                /\ g_totalAccountsCreated' = g_totalAccountsCreated + 1
                /\ issued' = Append(issued, accountNumber)
                /\ ret' = accountNumber
                /\ UNCHANGED suspendedAccountCount
    /\ UNCHANGED g_complianceAuditMode
    /\ called' = <<>>
    /\ UNCHANGED serviceVars
    /\ engineFrame

createAccount(s, type, initialBalance) ==
    /\ op' = "createAccount"
    /\ IF initialBalance < MINIMUM_BALANCE
       THEN /\ ret' = EmptyId
            /\ UNCHANGED storeVars
       ELSE IF Cardinality(DOMAIN accounts[s]) >= MAX_ACCOUNTS_PER_USER
       THEN /\ ret' = EmptyId
            /\ UNCHANGED storeVars
       ELSE LET accountNumber == AccountNumber(accountCounter + 1)
                newAccount == NewAccount(accountNumber, type, initialBalance)
            IN  /\ accountCounter' = accountCounter + 1
                /\ accounts' = [accounts EXCEPT ![s] = (accountNumber :> newAccount) @@ @]
                /\ totalManagedBalance' = [totalManagedBalance EXCEPT ![s] = @ + initialBalance]
                /\ g_systemTotalBalance' = g_systemTotalBalance + initialBalance
                /\ g_totalAccountsCreated' = g_totalAccountsCreated + 1
                /\ issued' = Append(issued, accountNumber)
                /\ ret' = accountNumber
                /\ UNCHANGED suspendedAccountCount
    /\ UNCHANGED g_complianceAuditMode
    /\ called' = <<>>
    /\ UNCHANGED serviceVars
    /\ engineFrame

\* variant: the FROZEN test left out
ActivateRefused_NoFrozen(account) ==
    IF account.status = "PENDING_VERIFICATION" /\ ~account.isVerified
    THEN TRUE
    ELSE account.status = "CLOSED"

\* the two refusals of activateAccount for a stored account
ActivateRefused(account) ==
    IF account.status = "PENDING_VERIFICATION" /\ ~account.isVerified
    THEN TRUE
    ELSE account.status = "CLOSED" \/ account.status = "FROZEN"

activateAccount(s, accountNumber) ==
    /\ op' = "activateAccount"
    /\ IF ~Known(s, accountNumber)
       THEN ret' = FALSE /\ UNCHANGED accounts
       ELSE IF ActivateRefused(accounts[s][accountNumber])
       THEN ret' = FALSE /\ UNCHANGED accounts
       ELSE /\ accounts' = [accounts EXCEPT ![s][accountNumber].status = "ACTIVE"]
            /\ ret' = TRUE
    /\ UNCHANGED <<suspendedAccountCount, totalManagedBalance, accountCounter,
                   g_totalAccountsCreated, g_systemTotalBalance, issued, g_complianceAuditMode>>
    /\ called' = <<>>
    /\ UNCHANGED serviceVars
    /\ engineFrame

\* variant: an already suspended account is refused as well
SuspendRefused_AlreadySuspended(account) ==
    account.status = "CLOSED" \/ account.status = "SUSPENDED"

\* the refusal of suspendAccount for a stored account
SuspendRefused(account) == account.status = "CLOSED"

suspendAccount(s, accountNumber, reason) ==
    /\ op' = "suspendAccount"
    /\ IF ~Known(s, accountNumber)
       THEN ret' = FALSE /\ UNCHANGED <<accounts, suspendedAccountCount>>
       ELSE IF SuspendRefused(accounts[s][accountNumber])
       THEN ret' = FALSE /\ UNCHANGED <<accounts, suspendedAccountCount>>
       ELSE /\ accounts' = [accounts EXCEPT ![s][accountNumber].status = "SUSPENDED"]
            /\ suspendedAccountCount' = [suspendedAccountCount EXCEPT ![s] = @ + 1]
            /\ ret' = TRUE
    /\ UNCHANGED <<totalManagedBalance, accountCounter, g_totalAccountsCreated,
                   g_systemTotalBalance, issued, g_complianceAuditMode>>
    /\ called' = <<>>
    /\ UNCHANGED serviceVars
    /\ engineFrame

\* variant: the balance test written with >= instead of >
deactivateAccount_RefusesZero(s, accountNumber) ==
    /\ op' = "deactivateAccount"
    /\ IF ~Known(s, accountNumber)
       THEN ret' = FALSE /\ UNCHANGED accounts
       ELSE LET account == accounts[s][accountNumber] IN
            IF account.status = "CLOSED"
            THEN ret' = FALSE /\ UNCHANGED accounts
            ELSE IF account.balance >= 0
            THEN ret' = FALSE /\ UNCHANGED accounts
            ELSE /\ accounts' = [accounts EXCEPT ![s][accountNumber].status = "CLOSED"]
                 /\ ret' = TRUE
    /\ UNCHANGED <<suspendedAccountCount, totalManagedBalance, accountCounter,
                   g_totalAccountsCreated, g_systemTotalBalance, issued, g_complianceAuditMode>>
    /\ called' = <<>>
    /\ UNCHANGED serviceVars
    /\ engineFrame

deactivateAccount(s, accountNumber) ==
    /\ op' = "deactivateAccount"
    /\ IF ~Known(s, accountNumber)
       THEN ret' = FALSE /\ UNCHANGED accounts
       ELSE LET account == accounts[s][accountNumber] IN
            IF account.status = "CLOSED"
            THEN ret' = FALSE /\ UNCHANGED accounts
            ELSE IF account.balance > 0
            THEN ret' = FALSE /\ UNCHANGED accounts
            ELSE /\ accounts' = [accounts EXCEPT ![s][accountNumber].status = "CLOSED"]
                 /\ ret' = TRUE
    /\ UNCHANGED <<suspendedAccountCount, totalManagedBalance, accountCounter,
                   g_totalAccountsCreated, g_systemTotalBalance, issued, g_complianceAuditMode>>
    /\ called' = <<>>
    /\ UNCHANGED serviceVars
    /\ engineFrame

\* the three score bands of evaluateAccountRisk
FrequencyBand(transactionCount) ==
    IF transactionCount > 100 THEN 30
    ELSE IF transactionCount > 50 THEN 15
    ELSE IF transactionCount > 20 THEN 5
    ELSE 0

VolumeBand(volumeLastDay) ==
    IF volumeLastDay > Units(1000000) THEN 40
    ELSE IF volumeLastDay > Units(500000) THEN 20
    ELSE IF volumeLastDay > Units(100000) THEN 10
    ELSE 0

\* variant: the points of the two one-flag cases exchanged
FlagBand_OneFlagSwapped(isVerified, hasFraudAlert) ==
    IF ~isVerified /\ hasFraudAlert THEN 35
    ELSE IF ~isVerified THEN 25
    ELSE IF hasFraudAlert THEN 20
    ELSE 0

FlagBand(isVerified, hasFraudAlert) ==
    IF ~isVerified /\ hasFraudAlert THEN 35
    ELSE IF ~isVerified THEN 20
    ELSE IF hasFraudAlert THEN 25
    ELSE 0

RiskScore(account, transactionCount, volumeLastDay) ==
    FrequencyBand(transactionCount) + VolumeBand(volumeLastDay)
        + FlagBand(account.isVerified, account.hasFraudAlert)

\* variant: the computed score is stored in the account
evaluateAccountRisk_StoresScore(s, accountNumber, transactionCount, volumeLastDay) ==
    /\ op' = "evaluateAccountRisk"
    /\ IF ~Known(s, accountNumber)
       THEN ret' = "CLOSED" /\ UNCHANGED <<accounts, suspendedAccountCount>>
       ELSE LET riskScore == RiskScore(accounts[s][accountNumber], transactionCount, volumeLastDay) IN
            IF riskScore >= HIGH_RISK_THRESHOLD /\ g_complianceAuditMode
            THEN /\ accounts' = [accounts EXCEPT ![s][accountNumber].status = "FROZEN",
                                                 ![s][accountNumber].riskScore = riskScore]
                 /\ ret' = "FROZEN"
                 /\ UNCHANGED suspendedAccountCount
            ELSE IF riskScore >= HIGH_RISK_THRESHOLD
            THEN /\ accounts' = [accounts EXCEPT ![s][accountNumber].status = "SUSPENDED",
                                                 ![s][accountNumber].riskScore = riskScore]
                 /\ suspendedAccountCount' = [suspendedAccountCount EXCEPT ![s] = @ + 1]
                 /\ ret' = "SUSPENDED"
            ELSE IF riskScore > 50
            THEN /\ accounts' = [accounts EXCEPT ![s][accountNumber].riskScore = riskScore]
                 /\ ret' = "PENDING_VERIFICATION"
                 /\ UNCHANGED suspendedAccountCount
            ELSE /\ accounts' = [accounts EXCEPT ![s][accountNumber].riskScore = riskScore]
                 /\ ret' = "ACTIVE"
                 /\ UNCHANGED suspendedAccountCount
    /\ UNCHANGED <<totalManagedBalance, accountCounter, g_totalAccountsCreated,
                   g_systemTotalBalance, issued, g_complianceAuditMode>>
    /\ called' = IF Known(s, accountNumber) /\ dataService[s]
                 THEN <<"getLinkedAccounts">>
                 ELSE <<>>
    /\ UNCHANGED serviceVars
    /\ engineFrame

\* variant: an attached data collaborator raises the score by 15
evaluateAccountRisk_ScoresLinkedAccounts(s, accountNumber, transactionCount, volumeLastDay) ==
    /\ op' = "evaluateAccountRisk"
    /\ IF ~Known(s, accountNumber)
       THEN ret' = "CLOSED" /\ UNCHANGED <<accounts, suspendedAccountCount>>
       ELSE LET riskScore == RiskScore(accounts[s][accountNumber], transactionCount, volumeLastDay)
                                 + (IF dataService[s] THEN 15 ELSE 0) IN
            IF riskScore >= HIGH_RISK_THRESHOLD /\ g_complianceAuditMode
            THEN /\ accounts' = [accounts EXCEPT ![s][accountNumber].status = "FROZEN"]
                 /\ ret' = "FROZEN"
                 /\ UNCHANGED suspendedAccountCount
            ELSE IF riskScore >= HIGH_RISK_THRESHOLD
            THEN /\ accounts' = [accounts EXCEPT ![s][accountNumber].status = "SUSPENDED"]
                 /\ suspendedAccountCount' = [suspendedAccountCount EXCEPT ![s] = @ + 1]
                 /\ ret' = "SUSPENDED"
            ELSE IF riskScore > 50
            THEN ret' = "PENDING_VERIFICATION" /\ UNCHANGED <<accounts, suspendedAccountCount>>
            ELSE ret' = "ACTIVE" /\ UNCHANGED <<accounts, suspendedAccountCount>>
    /\ UNCHANGED <<totalManagedBalance, accountCounter, g_totalAccountsCreated,
                   g_systemTotalBalance, issued, g_complianceAuditMode>>
    /\ called' = IF Known(s, accountNumber) /\ dataService[s]
                 THEN <<"getLinkedAccounts">>
                 ELSE <<>>
    /\ UNCHANGED serviceVars
    /\ engineFrame

\* variant: the counter is incremented only when the account was not SUSPENDED
evaluateAccountRisk_CountsOnce(s, accountNumber, transactionCount, volumeLastDay) ==
    /\ op' = "evaluateAccountRisk"
    /\ IF ~Known(s, accountNumber)
       THEN ret' = "CLOSED" /\ UNCHANGED <<accounts, suspendedAccountCount>>
       ELSE LET riskScore == RiskScore(accounts[s][accountNumber], transactionCount, volumeLastDay) IN
            IF riskScore >= HIGH_RISK_THRESHOLD /\ g_complianceAuditMode
            THEN /\ accounts' = [accounts EXCEPT ![s][accountNumber].status = "FROZEN"]
                 /\ ret' = "FROZEN"
                 /\ UNCHANGED suspendedAccountCount
            ELSE IF riskScore >= HIGH_RISK_THRESHOLD
            THEN /\ accounts' = [accounts EXCEPT ![s][accountNumber].status = "SUSPENDED"]
                 /\ suspendedAccountCount' =
                        [suspendedAccountCount EXCEPT
                            ![s] = IF accounts[s][accountNumber].status = "SUSPENDED"
                                   THEN @ ELSE @ + 1]
                 /\ ret' = "SUSPENDED"
            ELSE IF riskScore > 50
            THEN ret' = "PENDING_VERIFICATION" /\ UNCHANGED <<accounts, suspendedAccountCount>>
            ELSE ret' = "ACTIVE" /\ UNCHANGED <<accounts, suspendedAccountCount>>
    /\ UNCHANGED <<totalManagedBalance, accountCounter, g_totalAccountsCreated,
                   g_systemTotalBalance, issued, g_complianceAuditMode>>
    /\ called' = IF Known(s, accountNumber) /\ dataService[s]
                 THEN <<"getLinkedAccounts">>
                 ELSE <<>>
    /\ UNCHANGED serviceVars
    /\ engineFrame

\* variant: the PENDING_VERIFICATION decision is stored as well
evaluateAccountRisk_StoresPending(s, accountNumber, transactionCount, volumeLastDay) ==
    /\ op' = "evaluateAccountRisk"
    /\ IF ~Known(s, accountNumber)
       THEN ret' = "CLOSED" /\ UNCHANGED <<accounts, suspendedAccountCount>>
       ELSE LET riskScore == RiskScore(accounts[s][accountNumber], transactionCount, volumeLastDay) IN
            IF riskScore >= HIGH_RISK_THRESHOLD /\ g_complianceAuditMode
            THEN /\ accounts' = [accounts EXCEPT ![s][accountNumber].status = "FROZEN"]
                 /\ ret' = "FROZEN"
                 /\ UNCHANGED suspendedAccountCount
            ELSE IF riskScore >= HIGH_RISK_THRESHOLD
            THEN /\ accounts' = [accounts EXCEPT ![s][accountNumber].status = "SUSPENDED"]
                 /\ suspendedAccountCount' = [suspendedAccountCount EXCEPT ![s] = @ + 1]
                 /\ ret' = "SUSPENDED"
            ELSE IF riskScore > 50
            THEN /\ accounts' = [accounts EXCEPT ![s][accountNumber].status = "PENDING_VERIFICATION"]
                 /\ ret' = "PENDING_VERIFICATION"
                 /\ UNCHANGED suspendedAccountCount
            ELSE ret' = "ACTIVE" /\ UNCHANGED <<accounts, suspendedAccountCount>>
    /\ UNCHANGED <<totalManagedBalance, accountCounter, g_totalAccountsCreated,
                   g_systemTotalBalance, issued, g_complianceAuditMode>>
    /\ called' = IF Known(s, accountNumber) /\ dataService[s]
                 THEN <<"getLinkedAccounts">>
                 ELSE <<>>
    /\ UNCHANGED serviceVars
    /\ engineFrame

evaluateAccountRisk(s, accountNumber, transactionCount, volumeLastDay) ==
    /\ op' = "evaluateAccountRisk"
    /\ IF ~Known(s, accountNumber)
       THEN ret' = "CLOSED" /\ UNCHANGED <<accounts, suspendedAccountCount>>
       ELSE LET riskScore == RiskScore(accounts[s][accountNumber], transactionCount, volumeLastDay) IN
            IF riskScore >= HIGH_RISK_THRESHOLD /\ g_complianceAuditMode
            THEN /\ accounts' = [accounts EXCEPT ![s][accountNumber].status = "FROZEN"]
                 /\ ret' = "FROZEN"
                 /\ UNCHANGED suspendedAccountCount
            ELSE IF riskScore >= HIGH_RISK_THRESHOLD
            THEN /\ accounts' = [accounts EXCEPT ![s][accountNumber].status = "SUSPENDED"]
                 /\ suspendedAccountCount' = [suspendedAccountCount EXCEPT ![s] = @ + 1]
                 /\ ret' = "SUSPENDED"
            ELSE IF riskScore > 50
            THEN ret' = "PENDING_VERIFICATION" /\ UNCHANGED <<accounts, suspendedAccountCount>>
            ELSE ret' = "ACTIVE" /\ UNCHANGED <<accounts, suspendedAccountCount>>
    /\ UNCHANGED <<totalManagedBalance, accountCounter, g_totalAccountsCreated,
                   g_systemTotalBalance, issued, g_complianceAuditMode>>
    /\ called' = IF Known(s, accountNumber) /\ dataService[s]
                 THEN <<"getLinkedAccounts">>
                 ELSE <<>>
    /\ UNCHANGED serviceVars
    /\ engineFrame

\* variant: the risk-score test applied to every old status, not only ACTIVE
TransitionRefused_AnyToSuspended(account, newStatus) ==
    IF account.status = "CLOSED" /\ newStatus # "CLOSED"
    THEN TRUE
    ELSE IF account.status = "FROZEN" /\ newStatus = "ACTIVE"
    THEN ~account.isVerified \/ account.hasFraudAlert
    ELSE newStatus = "SUSPENDED" /\ account.riskScore < HIGH_RISK_THRESHOLD

\* variant: a CLOSED account refuses every new status, CLOSED included
TransitionRefused_ClosedToClosed(account, newStatus) ==
    IF account.status = "CLOSED"
    THEN TRUE
    ELSE IF account.status = "FROZEN" /\ newStatus = "ACTIVE"
    THEN ~account.isVerified \/ account.hasFraudAlert
    ELSE IF newStatus = "SUSPENDED" /\ account.riskScore < HIGH_RISK_THRESHOLD
    THEN account.status = "ACTIVE"
    ELSE FALSE

\* MCDC Condition 5: the transitions updateAccountStatus refuses
TransitionRefused(account, newStatus) ==
    IF account.status = "CLOSED" /\ newStatus # "CLOSED"
    THEN TRUE
    ELSE IF account.status = "FROZEN" /\ newStatus = "ACTIVE"
    THEN ~account.isVerified \/ account.hasFraudAlert
    ELSE IF newStatus = "SUSPENDED" /\ account.riskScore < HIGH_RISK_THRESHOLD
    THEN account.status = "ACTIVE"
    ELSE FALSE

\* variant: no increment when an account enters SUSPENDED
SuspendedDelta_NoIncrement(oldStatus, newStatus) ==
    IF oldStatus = "SUSPENDED" /\ newStatus = "ACTIVE" THEN -1
    ELSE 0

\* the adjustment updateAccountStatus makes to suspendedAccountCount
SuspendedDelta(oldStatus, newStatus) ==
    IF oldStatus = "SUSPENDED" /\ newStatus = "ACTIVE" THEN -1
    ELSE IF oldStatus # "SUSPENDED" /\ newStatus = "SUSPENDED" THEN 1
    ELSE 0

updateAccountStatus(s, accountNumber, newStatus) ==
    /\ op' = "updateAccountStatus"
    /\ IF ~Known(s, accountNumber)
       THEN ret' = FALSE /\ UNCHANGED <<accounts, suspendedAccountCount>>
       ELSE LET account == accounts[s][accountNumber] IN
            IF TransitionRefused(account, newStatus)
            THEN ret' = FALSE /\ UNCHANGED <<accounts, suspendedAccountCount>>
            ELSE /\ suspendedAccountCount' =
                        [suspendedAccountCount EXCEPT ![s] = @ + SuspendedDelta(account.status, newStatus)]
                 /\ accounts' = [accounts EXCEPT ![s][accountNumber].status = newStatus]
                 /\ ret' = TRUE
    /\ UNCHANGED <<totalManagedBalance, accountCounter, g_totalAccountsCreated,
                   g_systemTotalBalance, issued, g_complianceAuditMode>>
    /\ called' = <<>>
    /\ UNCHANGED serviceVars
    /\ engineFrame

\* variant: the email is sent whatever the verification result
verifyAccount_AlwaysNotifies(s, accountNumber, verificationResult) ==
    /\ op' = "verifyAccount"
    /\ IF ~Known(s, accountNumber)
       THEN ret' = FALSE /\ UNCHANGED accounts
       ELSE IF verificationResult /\ accounts[s][accountNumber].status = "PENDING_VERIFICATION"
       THEN /\ accounts' = [accounts EXCEPT ![s][accountNumber].isVerified = verificationResult,
                                            ![s][accountNumber].status = "ACTIVE"]
            /\ ret' = TRUE
       ELSE /\ accounts' = [accounts EXCEPT ![s][accountNumber].isVerified = verificationResult]
            /\ ret' = FALSE
    /\ UNCHANGED <<suspendedAccountCount, totalManagedBalance, accountCounter,
                   g_totalAccountsCreated, g_systemTotalBalance, issued, g_complianceAuditMode>>
    /\ called' = IF Known(s, accountNumber)
                 THEN (IF dataService[s]
                       THEN <<"getIdentityVerificationStatus", "getCreditScore">>
                       ELSE <<>>)
                      \o (IF notificationService[s]
                          THEN <<"sendEmailNotification">>
                          ELSE <<>>)
                 ELSE <<>>
    /\ UNCHANGED serviceVars
    /\ engineFrame

\* variant: isVerified is written only when the account is activated
verifyAccount_StoresOnSuccess(s, accountNumber, verificationResult) ==
    /\ op' = "verifyAccount"
    /\ IF ~Known(s, accountNumber)
       THEN ret' = FALSE /\ UNCHANGED accounts
       ELSE IF verificationResult /\ accounts[s][accountNumber].status = "PENDING_VERIFICATION"
       THEN /\ accounts' = [accounts EXCEPT ![s][accountNumber].isVerified = verificationResult,
                                            ![s][accountNumber].status = "ACTIVE"]
            /\ ret' = TRUE
       ELSE ret' = FALSE /\ UNCHANGED accounts
    /\ UNCHANGED <<suspendedAccountCount, totalManagedBalance, accountCounter,
                   g_totalAccountsCreated, g_systemTotalBalance, issued, g_complianceAuditMode>>
    /\ called' = IF Known(s, accountNumber)
                 THEN (IF dataService[s]
                       THEN <<"getIdentityVerificationStatus", "getCreditScore">>
                       ELSE <<>>)
                      \o (IF notificationService[s] /\ verificationResult
                          THEN <<"sendEmailNotification">>
                          ELSE <<>>)
                 ELSE <<>>
    /\ UNCHANGED serviceVars
    /\ engineFrame

\* variant: the status test left out of the activation
verifyAccount_AnyStatus(s, accountNumber, verificationResult) ==
    /\ op' = "verifyAccount"
    /\ IF ~Known(s, accountNumber)
       THEN ret' = FALSE /\ UNCHANGED accounts
       ELSE IF verificationResult
       THEN /\ accounts' = [accounts EXCEPT ![s][accountNumber].isVerified = verificationResult,
                                            ![s][accountNumber].status = "ACTIVE"]
            /\ ret' = TRUE
       ELSE /\ accounts' = [accounts EXCEPT ![s][accountNumber].isVerified = verificationResult]
            /\ ret' = FALSE
    /\ UNCHANGED <<suspendedAccountCount, totalManagedBalance, accountCounter,
                   g_totalAccountsCreated, g_systemTotalBalance, issued, g_complianceAuditMode>>
    /\ called' = IF Known(s, accountNumber)
                 THEN (IF dataService[s]
                       THEN <<"getIdentityVerificationStatus", "getCreditScore">>
                       ELSE <<>>)
                      \o (IF notificationService[s] /\ verificationResult
                          THEN <<"sendEmailNotification">>
                          ELSE <<>>)
                 ELSE <<>>
    /\ UNCHANGED serviceVars
    /\ engineFrame

verifyAccount(s, accountNumber, verificationResult) ==
    /\ op' = "verifyAccount"
    /\ IF ~Known(s, accountNumber)
       THEN ret' = FALSE /\ UNCHANGED accounts
       ELSE IF verificationResult /\ accounts[s][accountNumber].status = "PENDING_VERIFICATION"
       THEN /\ accounts' = [accounts EXCEPT ![s][accountNumber].isVerified = verificationResult,
                                            ![s][accountNumber].status = "ACTIVE"]
            /\ ret' = TRUE
       ELSE /\ accounts' = [accounts EXCEPT ![s][accountNumber].isVerified = verificationResult]
            /\ ret' = FALSE
    /\ UNCHANGED <<suspendedAccountCount, totalManagedBalance, accountCounter,
                   g_totalAccountsCreated, g_systemTotalBalance, issued, g_complianceAuditMode>>
    /\ called' = IF Known(s, accountNumber)
                 THEN (IF dataService[s]
                       THEN <<"getIdentityVerificationStatus", "getCreditScore">>
                       ELSE <<>>)
                      \o (IF notificationService[s] /\ verificationResult
                          THEN <<"sendEmailNotification">>
                          ELSE <<>>)
                 ELSE <<>>
    /\ UNCHANGED serviceVars
    /\ engineFrame

\* the test harness writes the process-wide flag g_complianceAuditMode
setComplianceAuditMode(b) ==
    /\ op' = "setComplianceAuditMode"
    /\ ret' = "none"
    /\ g_complianceAuditMode' = b
    /\ UNCHANGED storeVars
    /\ called' = <<>>
    /\ UNCHANGED serviceVars
    /\ engineFrame

\* a query: no stored state, flag or collaborator is touched
queryFrame ==
    /\ called' = <<>>
    /\ UNCHANGED <<storeVars, g_complianceAuditMode, serviceVars>>
    /\ engineFrame

\* Account* getAccount: nullptr, or the address of the stored account,
\* written as the store and the key of the map slot
NullPtr == <<>>

getAccount(s, accountNumber) ==
    /\ op' = "getAccount"
    /\ ret' = IF ~Known(s, accountNumber) THEN NullPtr ELSE <<s, accountNumber>>
    /\ queryFrame

\* the value -1.0 getAccountBalance returns for an unknown account
BalanceNotFound == 0 - Units(1)

\* variant: a default-constructed balance is returned for an unknown account
getAccountBalance_ZeroWhenUnknown(s, accountNumber) ==
    /\ op' = "getAccountBalance"
    /\ ret' = IF ~Known(s, accountNumber)
              THEN 0
              ELSE accounts[s][accountNumber].balance
    /\ queryFrame

getAccountBalance(s, accountNumber) ==
    /\ op' = "getAccountBalance"
    /\ ret' = IF ~Known(s, accountNumber)
              THEN BalanceNotFound
              ELSE accounts[s][accountNumber].balance
    /\ queryFrame

setNotificationService(s, service) ==
    /\ op' = "setNotificationService"
    /\ ret' = "none"
    /\ notificationService' = [notificationService EXCEPT ![s] = service]
    /\ called' = <<>>
    /\ UNCHANGED <<storeVars, g_complianceAuditMode, dataService, authService>>
    /\ engineFrame

setExternalDataService(s, service) ==
    /\ op' = "setExternalDataService"
    /\ ret' = "none"
    /\ dataService' = [dataService EXCEPT ![s] = service]
    /\ called' = <<>>
    /\ UNCHANGED <<storeVars, g_complianceAuditMode, notificationService, authService>>
    /\ engineFrame

setAuthenticationService(s, service) ==
    /\ op' = "setAuthenticationService"
    /\ ret' = "none"
    /\ authService' = [authService EXCEPT ![s] = service]
    /\ called' = <<>>
    /\ UNCHANGED <<storeVars, g_complianceAuditMode, notificationService, dataService>>
    /\ engineFrame

\* a caller's write ptr->field = value through the pointer getAccount returned;
\* getAccount returns nullptr for an unknown account and nothing is written
writeField(s, accountNumber, field, value) ==
    /\ op' = "writeField"
    /\ ret' = "none"
    /\ Known(s, accountNumber)
    /\ accounts' = [accounts EXCEPT ![s][accountNumber][field] = value]
    /\ called' = <<>>
    /\ UNCHANGED <<suspendedAccountCount, totalManagedBalance, accountCounter,
                   g_totalAccountsCreated, g_systemTotalBalance, issued,
                   g_complianceAuditMode, serviceVars>>
    /\ engineFrame

----------------------------------------------------------------------------
(* TransactionProcessor: constants and types *)

MIN_TRANSACTION_AMOUNT == Cents(1)
MAX_TRANSACTION_AMOUNT == Units(1000000)
MAX_DAILY_TRANSACTIONS == 1000
WithdrawalLimit == Units(50000)
RefundLimit == Units(10000)
UrgentThreshold == Units(100000)
DailyVolumeLimit == Units(5000000)

TransactionStatus == {"PENDING", "APPROVED", "REJECTED", "CANCELLED", "COMPLETED"}
TransactionType == {"DEPOSIT", "WITHDRAWAL", "TRANSFER", "REFUND"}
OtherType == "OTHER"          \* a value outside the enumerators, static_cast<TransactionType>(99)

\* what the compliance collaborator answers; "null" is no collaborator attached
ComplianceLevel == {"LOW_RISK", "MEDIUM_RISK", "HIGH_RISK", "BLOCKED"}
NoService == "null"

\* variant: the lower limit left out of the validation
validateTransaction_NoMinimum(amount, type) ==
    IF amount > MAX_TRANSACTION_AMOUNT THEN FALSE
    ELSE IF type = "WITHDRAWAL" /\ amount > WithdrawalLimit THEN FALSE
    ELSE IF type = "REFUND" /\ amount > RefundLimit THEN FALSE
    ELSE TRUE

\* variant: the REFUND limit left out of the validation
validateTransaction_NoRefundLimit(amount, type) ==
    IF amount < MIN_TRANSACTION_AMOUNT THEN FALSE
    ELSE IF amount > MAX_TRANSACTION_AMOUNT THEN FALSE
    ELSE IF type = "WITHDRAWAL" /\ amount > WithdrawalLimit THEN FALSE
    ELSE TRUE

\* variant: the upper limit written with >= instead of >
validateTransaction_MaxExclusive(amount, type) ==
    IF amount < MIN_TRANSACTION_AMOUNT THEN FALSE
    ELSE IF amount >= MAX_TRANSACTION_AMOUNT THEN FALSE
    ELSE IF type = "WITHDRAWAL" /\ amount > WithdrawalLimit THEN FALSE
    ELSE IF type = "REFUND" /\ amount > RefundLimit THEN FALSE
    ELSE TRUE

validateTransaction(amount, type) ==
    IF amount < MIN_TRANSACTION_AMOUNT THEN FALSE
    ELSE IF amount > MAX_TRANSACTION_AMOUNT THEN FALSE
    ELSE IF type = "WITHDRAWAL" /\ amount > WithdrawalLimit THEN FALSE
    ELSE IF type = "REFUND" /\ amount > RefundLimit THEN FALSE
    ELSE TRUE

\* variant: the final volume test written with < instead of <=
TransferStatus_VolumeExclusive(amount, source, destination, isUrgent) ==
    IF source = "" \/ destination = "" THEN "REJECTED"
    ELSE IF source = destination
    THEN (IF amount > 0 THEN "REJECTED" ELSE "CANCELLED")
    ELSE IF /\ isUrgent /\ amount > UrgentThreshold
            /\ \/ dailyTransactionCount >= MAX_DAILY_TRANSACTIONS
               \/ dailyVolume + amount > DailyVolumeLimit
    THEN "REJECTED"
    ELSE IF g_systemLocked /\ ~isUrgent THEN "PENDING"
    ELSE IF g_systemLocked /\ isUrgent THEN "APPROVED"
    ELSE IF /\ amount > 0
            /\ dailyTransactionCount < MAX_DAILY_TRANSACTIONS
            /\ dailyVolume + amount < DailyVolumeLimit
    THEN "COMPLETED"
    ELSE IF amount > 0 /\ dailyTransactionCount < MAX_DAILY_TRANSACTIONS THEN "APPROVED"
    ELSE IF amount > 0 THEN "PENDING"
    ELSE "CANCELLED"

\* variant: the system lock is tested before the urgent transfer rules
TransferStatus_LockBeforeUrgent(amount, source, destination, isUrgent) ==
    IF source = "" \/ destination = "" THEN "REJECTED"
    ELSE IF source = destination
    THEN (IF amount > 0 THEN "REJECTED" ELSE "CANCELLED")
    ELSE IF g_systemLocked /\ ~isUrgent THEN "PENDING"
    ELSE IF g_systemLocked /\ isUrgent THEN "APPROVED"
    ELSE IF /\ isUrgent /\ amount > UrgentThreshold
            /\ \/ dailyTransactionCount >= MAX_DAILY_TRANSACTIONS
               \/ dailyVolume + amount > DailyVolumeLimit
    THEN "REJECTED"
    ELSE IF /\ amount > 0
            /\ dailyTransactionCount < MAX_DAILY_TRANSACTIONS
            /\ dailyVolume + amount <= DailyVolumeLimit
    THEN "COMPLETED"
    ELSE IF amount > 0 /\ dailyTransactionCount < MAX_DAILY_TRANSACTIONS THEN "APPROVED"
    ELSE IF amount > 0 THEN "PENDING"
    ELSE "CANCELLED"

\* variant: the system lock is tested before the account identifiers
TransferStatus_LockFirst(amount, source, destination, isUrgent) ==
    IF g_systemLocked /\ ~isUrgent THEN "PENDING"
    ELSE IF g_systemLocked /\ isUrgent THEN "APPROVED"
    ELSE IF source = "" \/ destination = "" THEN "REJECTED"
    ELSE IF source = destination
    THEN (IF amount > 0 THEN "REJECTED" ELSE "CANCELLED")
    ELSE IF /\ isUrgent /\ amount > UrgentThreshold
            /\ \/ dailyTransactionCount >= MAX_DAILY_TRANSACTIONS
               \/ dailyVolume + amount > DailyVolumeLimit
    THEN "REJECTED"
    ELSE IF /\ amount > 0
            /\ dailyTransactionCount < MAX_DAILY_TRANSACTIONS
            /\ dailyVolume + amount <= DailyVolumeLimit
    THEN "COMPLETED"
    ELSE IF amount > 0 /\ dailyTransactionCount < MAX_DAILY_TRANSACTIONS THEN "APPROVED"
    ELSE IF amount > 0 THEN "PENDING"
    ELSE "CANCELLED"

\* the status executeTransfer returns in the current state
TransferStatus(amount, source, destination, isUrgent) ==
    IF source = "" \/ destination = "" THEN "REJECTED"
    ELSE IF source = destination
    THEN (IF amount > 0 THEN "REJECTED" ELSE "CANCELLED")
    ELSE IF /\ isUrgent /\ amount > UrgentThreshold
            /\ \/ dailyTransactionCount >= MAX_DAILY_TRANSACTIONS
               \/ dailyVolume + amount > DailyVolumeLimit
    THEN "REJECTED"
    ELSE IF g_systemLocked /\ ~isUrgent THEN "PENDING"
    ELSE IF g_systemLocked /\ isUrgent THEN "APPROVED"
    ELSE IF /\ amount > 0
            /\ dailyTransactionCount < MAX_DAILY_TRANSACTIONS
            /\ dailyVolume + amount <= DailyVolumeLimit
    THEN "COMPLETED"
    ELSE IF amount > 0 /\ dailyTransactionCount < MAX_DAILY_TRANSACTIONS THEN "APPROVED"
    ELSE IF amount > 0 THEN "PENDING"
    ELSE "CANCELLED"

\* variant: HIGH_RISK rejects from 50,000 on
ComplianceRejects_AtLimit(level, amount) ==
    /\ level # NoService
    /\ \/ level = "BLOCKED"
       \/ level = "HIGH_RISK" /\ amount >= Units(50000)

\* the compliance phase of processTransaction rejects
ComplianceRejects(level, amount) ==
    /\ level # NoService
    /\ \/ level = "BLOCKED"
       \/ level = "HIGH_RISK" /\ amount > Units(50000)

\* variant: a DEPOSIT is added to dailyVolume before the daily count is tested
Dispatch_VolumeBeforeCap(type, amount, sourceAccount, destAccount) ==
    IF type = "TRANSFER"
    THEN [status |-> TransferStatus(amount, sourceAccount, destAccount, FALSE),
          volume |-> 0, processed |-> 0]
    ELSE IF type = "DEPOSIT"
    THEN (IF amount > 0 /\ dailyTransactionCount < MAX_DAILY_TRANSACTIONS
          THEN [status |-> "COMPLETED", volume |-> amount, processed |-> amount]
          ELSE [status |-> "REJECTED", volume |-> amount, processed |-> 0])
    ELSE IF type = "WITHDRAWAL"
    THEN (IF amount > 0 /\ amount <= WithdrawalLimit
             /\ dailyTransactionCount < MAX_DAILY_TRANSACTIONS
          THEN [status |-> "COMPLETED", volume |-> amount, processed |-> 0]
          ELSE IF dailyTransactionCount >= MAX_DAILY_TRANSACTIONS
          THEN [status |-> "REJECTED", volume |-> 0, processed |-> 0]
          ELSE [status |-> "PENDING", volume |-> 0, processed |-> 0])
    ELSE IF type = "REFUND"
    THEN (IF amount > 0 /\ amount <= RefundLimit
          THEN [status |-> "COMPLETED", volume |-> 0, processed |-> 0]
          ELSE [status |-> "PENDING", volume |-> 0, processed |-> 0])
    ELSE [status |-> "CANCELLED", volume |-> 0, processed |-> 0]

\* variant: a DEPOSIT is also held against the daily volume limit
Dispatch_DepositVolumeLimit(type, amount, sourceAccount, destAccount) ==
    IF type = "TRANSFER"
    THEN [status |-> TransferStatus(amount, sourceAccount, destAccount, FALSE),
          volume |-> 0, processed |-> 0]
    ELSE IF type = "DEPOSIT"
    THEN (IF /\ amount > 0 /\ dailyTransactionCount < MAX_DAILY_TRANSACTIONS
             /\ dailyVolume + amount <= DailyVolumeLimit
          THEN [status |-> "COMPLETED", volume |-> amount, processed |-> amount]
          ELSE [status |-> "REJECTED", volume |-> 0, processed |-> 0])
    ELSE IF type = "WITHDRAWAL"
    THEN (IF amount > 0 /\ amount <= WithdrawalLimit
             /\ dailyTransactionCount < MAX_DAILY_TRANSACTIONS
          THEN [status |-> "COMPLETED", volume |-> amount, processed |-> 0]
          ELSE IF dailyTransactionCount >= MAX_DAILY_TRANSACTIONS
          THEN [status |-> "REJECTED", volume |-> 0, processed |-> 0]
          ELSE [status |-> "PENDING", volume |-> 0, processed |-> 0])
    ELSE IF type = "REFUND"
    THEN (IF amount > 0 /\ amount <= RefundLimit
          THEN [status |-> "COMPLETED", volume |-> 0, processed |-> 0]
          ELSE [status |-> "PENDING", volume |-> 0, processed |-> 0])
    ELSE [status |-> "CANCELLED", volume |-> 0, processed |-> 0]

\* variant: a completed REFUND is added to dailyVolume as well
Dispatch_RefundVolume(type, amount, sourceAccount, destAccount) ==
    IF type = "TRANSFER"
    THEN [status |-> TransferStatus(amount, sourceAccount, destAccount, FALSE),
          volume |-> 0, processed |-> 0]
    ELSE IF type = "DEPOSIT"
    THEN (IF amount > 0 /\ dailyTransactionCount < MAX_DAILY_TRANSACTIONS
          THEN [status |-> "COMPLETED", volume |-> amount, processed |-> amount]
          ELSE [status |-> "REJECTED", volume |-> 0, processed |-> 0])
    ELSE IF type = "WITHDRAWAL"
    THEN (IF amount > 0 /\ amount <= WithdrawalLimit
             /\ dailyTransactionCount < MAX_DAILY_TRANSACTIONS
          THEN [status |-> "COMPLETED", volume |-> amount, processed |-> 0]
          ELSE IF dailyTransactionCount >= MAX_DAILY_TRANSACTIONS
          THEN [status |-> "REJECTED", volume |-> 0, processed |-> 0]
          ELSE [status |-> "PENDING", volume |-> 0, processed |-> 0])
    ELSE IF type = "REFUND"
    THEN (IF amount > 0 /\ amount <= RefundLimit
          THEN [status |-> "COMPLETED", volume |-> amount, processed |-> 0]
          ELSE [status |-> "PENDING", volume |-> 0, processed |-> 0])
    ELSE [status |-> "CANCELLED", volume |-> 0, processed |-> 0]

\* "Process based on type": the status, and what is added to dailyVolume and
\* to g_totalVolumeProcessed
Dispatch(type, amount, sourceAccount, destAccount) ==
    IF type = "TRANSFER"
    THEN [status |-> TransferStatus(amount, sourceAccount, destAccount, FALSE),
          volume |-> 0, processed |-> 0]
    ELSE IF type = "DEPOSIT"
    THEN (IF amount > 0 /\ dailyTransactionCount < MAX_DAILY_TRANSACTIONS
          THEN [status |-> "COMPLETED", volume |-> amount, processed |-> amount]
          ELSE [status |-> "REJECTED", volume |-> 0, processed |-> 0])
    ELSE IF type = "WITHDRAWAL"
    THEN (IF amount > 0 /\ amount <= WithdrawalLimit
             /\ dailyTransactionCount < MAX_DAILY_TRANSACTIONS
          THEN [status |-> "COMPLETED", volume |-> amount, processed |-> 0]
          ELSE IF dailyTransactionCount >= MAX_DAILY_TRANSACTIONS
          THEN [status |-> "REJECTED", volume |-> 0, processed |-> 0]
          ELSE [status |-> "PENDING", volume |-> 0, processed |-> 0])
    ELSE IF type = "REFUND"
    THEN (IF amount > 0 /\ amount <= RefundLimit
          THEN [status |-> "COMPLETED", volume |-> 0, processed |-> 0]
          ELSE [status |-> "PENDING", volume |-> 0, processed |-> 0])
    ELSE [status |-> "CANCELLED", volume |-> 0, processed |-> 0]

\* variant: only REJECTED is kept out of the journal
Logged_CancelledToo(status) == status # "REJECTED"

\* "Log and update counters" applies to this status
Logged(status) == status # "REJECTED" /\ status # "CANCELLED"

\* the Transaction aggregate handed to logTransaction (the wall-clock
\* timestamp is not kept)
Transaction(id, type, amount, sourceAccount, destAccount, status) ==
    [id |-> id, type |-> type, amount |-> amount, sourceAccount |-> sourceAccount,
     destAccount |-> destAccount, status |-> status]

\* transactionHistory.push_back(transaction)
logTransaction(history, transaction) == Append(history, transaction)

storeFrame == UNCHANGED <<storeVars, g_complianceAuditMode, serviceVars, called, replay>>

\* level is the answer of the compliance collaborator for sourceAccount
processTransaction(type, amount, sourceAccount, destAccount, level) ==
    /\ op' = "processTransaction"
    /\ IF ~validateTransaction(amount, type) \/ ComplianceRejects(level, amount)
       THEN /\ ret' = "REJECTED"
            /\ UNCHANGED <<transactionHistory, dailyVolume, dailyTransactionCount,
                           transactionCounter, g_totalTransactionsProcessed,
                           g_totalVolumeProcessed>>
       ELSE LET d == Dispatch(type, amount, sourceAccount, destAccount) IN
            /\ dailyVolume' = dailyVolume + d.volume
            /\ g_totalVolumeProcessed' = g_totalVolumeProcessed + d.processed
            /\ IF Logged(d.status)
               THEN /\ transactionCounter' = transactionCounter + 1
                    /\ transactionHistory' =
                           logTransaction(transactionHistory,
                               Transaction(transactionCounter + 1, type, amount,
                                           sourceAccount, destAccount, d.status))
                    /\ dailyTransactionCount' = dailyTransactionCount + 1
                    /\ g_totalTransactionsProcessed' = g_totalTransactionsProcessed + 1
               ELSE UNCHANGED <<transactionHistory, dailyTransactionCount,
                                transactionCounter, g_totalTransactionsProcessed>>
            /\ ret' = d.status
    /\ UNCHANGED <<g_systemLocked, resetMark>>
    /\ storeFrame

\* a caller's call of the public method validateTransaction
callValidateTransaction(amount, type) ==
    /\ op' = "validateTransaction"
    /\ ret' = validateTransaction(amount, type)
    /\ UNCHANGED <<engineVars, g_systemLocked>>
    /\ storeFrame

\* variant: a completed transfer is added to dailyVolume by executeTransfer
executeTransfer_AddsVolume(amount, source, destination, isUrgent) ==
    /\ op' = "executeTransfer"
    /\ ret' = TransferStatus(amount, source, destination, isUrgent)
    /\ dailyVolume' = IF TransferStatus(amount, source, destination, isUrgent) = "COMPLETED"
                      THEN dailyVolume + amount
                      ELSE dailyVolume
    /\ UNCHANGED <<transactionHistory, dailyTransactionCount, transactionCounter,
                   g_totalTransactionsProcessed, g_totalVolumeProcessed, resetMark,
                   g_systemLocked>>
    /\ storeFrame

executeTransfer(amount, source, destination, isUrgent) ==
    /\ op' = "executeTransfer"
    /\ ret' = TransferStatus(amount, source, destination, isUrgent)
    /\ UNCHANGED <<engineVars, g_systemLocked>>
    /\ storeFrame

\* variant: the reset also restarts the transaction ids
resetDailyLimits_RestartsIds ==
    /\ op' = "resetDailyLimits"
    /\ dailyVolume' = 0
    /\ dailyTransactionCount' = 0
    /\ transactionCounter' = 1000
    /\ resetMark' = Len(transactionHistory)
    /\ ret' = TRUE
    /\ UNCHANGED <<transactionHistory, g_totalTransactionsProcessed,
                   g_totalVolumeProcessed, g_systemLocked>>
    /\ storeFrame

\* variant: the reset also empties the journal
resetDailyLimits_ClearsJournal ==
    /\ op' = "resetDailyLimits"
    /\ dailyVolume' = 0
    /\ dailyTransactionCount' = 0
    /\ transactionHistory' = <<>>
    /\ resetMark' = 0
    /\ ret' = TRUE
    /\ UNCHANGED <<transactionCounter, g_totalTransactionsProcessed,
                   g_totalVolumeProcessed, g_systemLocked>>
    /\ storeFrame

\* variant: the daily count is not cleared
resetDailyLimits_KeepsCount ==
    /\ op' = "resetDailyLimits"
    /\ dailyVolume' = 0
    /\ resetMark' = Len(transactionHistory)
    /\ ret' = TRUE
    /\ UNCHANGED <<transactionHistory, dailyTransactionCount, transactionCounter,
                   g_totalTransactionsProcessed, g_totalVolumeProcessed, g_systemLocked>>
    /\ storeFrame

resetDailyLimits ==
    /\ op' = "resetDailyLimits"
    /\ dailyVolume' = 0
    /\ dailyTransactionCount' = 0
    /\ resetMark' = Len(transactionHistory)
    /\ ret' = TRUE
    /\ UNCHANGED <<transactionHistory, transactionCounter, g_totalTransactionsProcessed,
                   g_totalVolumeProcessed, g_systemLocked>>
    /\ storeFrame

\* the test harness writes the process-wide flag g_systemLocked
setSystemLocked(b) ==
    /\ op' = "setSystemLocked"
    /\ ret' = "none"
    /\ g_systemLocked' = b
    /\ UNCHANGED engineVars
    /\ storeFrame

----------------------------------------------------------------------------
(* Inputs and specifications *)

MainStore == 1

IdInputs(s) == DOMAIN accounts[s] \cup {UnknownId}
TransactionCountInputs == {20, 21, 51, 101}
VolumeInputs == {Units(100000), Units(100000) + 1, Units(500000) + 1, Units(1000000) + 1}
ReasonInputs == {"", "fraud"}
BalanceInputs == {0 - Units(1), 0, 1, Cents(1), Units(100)}

\* the account state machine of one store
Next ==
    \/ \E initialBalance \in {0, Units(10)} :
          /\ g_totalAccountsCreated < MaxAccounts
          /\ createAccount(MainStore, "CHECKING", initialBalance)
    \/ \E id \in IdInputs(MainStore) : activateAccount(MainStore, id)
    \/ \E id \in IdInputs(MainStore), reason \in ReasonInputs :
          /\ suspendedAccountCount[MainStore] < MaxSuspendCount
          /\ suspendAccount(MainStore, id, reason)
    \/ \E id \in IdInputs(MainStore) : deactivateAccount(MainStore, id)
    \/ \E id \in IdInputs(MainStore), tc \in TransactionCountInputs, vol \in VolumeInputs :
          /\ suspendedAccountCount[MainStore] < MaxSuspendCount
          /\ evaluateAccountRisk(MainStore, id, tc, vol)
    \/ \E id \in IdInputs(MainStore), newStatus \in AccountStatus :
          /\ suspendedAccountCount[MainStore] < MaxSuspendCount
          /\ updateAccountStatus(MainStore, id, newStatus)
    \/ \E id \in IdInputs(MainStore), b \in BOOLEAN : verifyAccount(MainStore, id, b)
    \/ \E b \in BOOLEAN : setComplianceAuditMode(b)

Spec == Init /\ [][Next]_vars

\* account creation on two stores, all types and balances
NextCreate ==
    \E s \in Stores, type \in AccountType, initialBalance \in BalanceInputs :
        /\ g_totalAccountsCreated < MaxCreated
        /\ createAccount(s, type, initialBalance)

SpecCreate == Init /\ [][NextCreate]_vars

\* account creation on one store up to and beyond the per-store cap
NextCap ==
    \E initialBalance \in {Units(10), Units(100)} :
        createAccount(MainStore, "CHECKING", initialBalance)

SpecCap == Init /\ [][NextCap]_vars

\* the evaluateAccountRisk calls made on the account under test:
\* <<transactionCount, volumeLastDay>>, band sums 0, 30, 50 and 55
RiskInputs == {<<20, Units(100000)>>, <<101, Units(100000)>>,
               <<101, Units(500000) + 1>>, <<51, Units(1000000) + 1>>}

\* the writes callers make through the pointer: <<field, value>>
WriteInputs ==
    ({"status"} \X AccountStatus)
    \cup ({"balance"} \X {0, 0 - Units(1)})
    \cup ({"riskScore"} \X {74, 75})
    \cup ({"isVerified", "hasFraudAlert"} \X BOOLEAN)

\* the account under test is the first one created; the accounts created
\* after it are never addressed
TargetInputs == (IF issued = <<>> THEN {} ELSE {issued[1]}) \cup {UnknownId}

\* the fields of the account under test are written through the pointer
\* between the store's operations
NextDirect ==
    \/ /\ g_totalAccountsCreated < MaxAccounts
       /\ createAccount(MainStore, "CHECKING", Units(10))
    \/ \E id \in TargetInputs \ {UnknownId}, w \in WriteInputs :
          writeField(MainStore, id, w[1], w[2])
    \/ \E id \in TargetInputs : activateAccount(MainStore, id)
    \/ \E id \in TargetInputs, reason \in ReasonInputs :
          /\ suspendedAccountCount[MainStore] < MaxSuspendCount
          /\ suspendAccount(MainStore, id, reason)
    \/ \E id \in TargetInputs : deactivateAccount(MainStore, id)
    \/ \E id \in TargetInputs, call \in RiskInputs :
          /\ suspendedAccountCount[MainStore] < MaxSuspendCount
          /\ evaluateAccountRisk(MainStore, id, call[1], call[2])
    \/ \E id \in TargetInputs, newStatus \in AccountStatus :
          /\ suspendedAccountCount[MainStore] < MaxSuspendCount
          /\ suspendedAccountCount[MainStore] > 0 - MaxSuspendCount
          /\ updateAccountStatus(MainStore, id, newStatus)
    \/ \E id \in TargetInputs, b \in BOOLEAN : verifyAccount(MainStore, id, b)
    \/ \E b \in BOOLEAN : setComplianceAuditMode(b)

SpecDirect == Init /\ [][NextDirect]_vars

\* one account, the collaborators attached and detached, every operation
\* and query called with known and unknown identifiers
\* balances offered to createAccount: the not-found sentinel, zero, and both
\* sides of MINIMUM_BALANCE
ServiceBalances == {0 - Units(1), 0, 1, Cents(1), Units(10)}

NextServices ==
    \/ \E initialBalance \in ServiceBalances :
          /\ DOMAIN accounts[MainStore] = {}
          /\ createAccount(MainStore, "CHECKING", initialBalance)
    \/ \E b \in BOOLEAN : setNotificationService(MainStore, b)
    \/ \E b \in BOOLEAN : setExternalDataService(MainStore, b)
    \/ \E id \in IdInputs(MainStore) : activateAccount(MainStore, id)
    \/ \E id \in IdInputs(MainStore), reason \in ReasonInputs :
          /\ suspendedAccountCount[MainStore] < MaxSuspendCount
          /\ suspendAccount(MainStore, id, reason)
    \/ \E id \in IdInputs(MainStore) : deactivateAccount(MainStore, id)
    \/ \E id \in IdInputs(MainStore), tc \in TransactionCountInputs, vol \in VolumeInputs :
          /\ suspendedAccountCount[MainStore] < MaxSuspendCount
          /\ evaluateAccountRisk(MainStore, id, tc, vol)
    \/ \E id \in IdInputs(MainStore), newStatus \in AccountStatus :
          /\ suspendedAccountCount[MainStore] < MaxSuspendCount
          /\ updateAccountStatus(MainStore, id, newStatus)
    \/ \E id \in IdInputs(MainStore), b \in BOOLEAN : verifyAccount(MainStore, id, b)
    \/ \E id \in IdInputs(MainStore) : getAccount(MainStore, id)
    \/ \E id \in IdInputs(MainStore) : getAccountBalance(MainStore, id)

SpecServices == Init /\ [][NextServices]_vars

AmountInputs == {0 - Units(50), 0, 1, Cents(1), Units(1000000), Units(1000000) + Cents(1)}
AccountInputs == {<<"A", "B">>, <<"A", "A">>, <<"", "B">>, <<"A", "">>}
LevelInputs == ComplianceLevel \cup {NoService}

\* the processTransaction calls made: <<type, amount, sourceAccount, destAccount>>
ProcessInputs ==
    ({"DEPOSIT"} \X AmountInputs \X {"A"} \X {""})
    \cup ({"WITHDRAWAL", "REFUND"} \X {0, Cents(1), Units(1000000)} \X {"A"} \X {""})
    \cup ({OtherType} \X {0, Cents(1)} \X {"A"} \X {"B"})
    \cup ({"TRANSFER"} \X {Cents(1)} \X {"A", ""} \X {"A", "B", ""})
    \cup ({"TRANSFER"} \X {0, Units(1000000) + Cents(1)} \X {"A"} \X {"B"})

\* amounts on both sides of every limit of validateTransaction
ValidateAmounts ==
    {0 - Units(50), 0, 1, Cents(1),
     Units(10000), Units(10000) + 1, Units(50000), Units(50000) + 1,
     Units(1000000), Units(1000000) + 1}

\* the transaction engine
NextEngine ==
    \/ \E call \in ProcessInputs, level \in LevelInputs :
          /\ Len(transactionHistory) < MaxJournal
          /\ processTransaction(call[1], call[2], call[3], call[4], level)
    \/ \E amount \in AmountInputs, acc \in AccountInputs, isUrgent \in BOOLEAN :
          executeTransfer(amount, acc[1], acc[2], isUrgent)
    \/ \E amount \in ValidateAmounts, type \in TransactionType \cup {OtherType} :
          /\ Len(transactionHistory) <= MaxValidateJournal
          /\ callValidateTransaction(amount, type)
    \/ resetDailyLimits
    \/ \E b \in BOOLEAN : setSystemLocked(b)

SpecEngine == Init /\ [][NextEngine]_vars

\* the deposits the tests use to fill the daily count and the daily volume
FillAmount == Units(1)
ChunkAmount == Units(1000000)
Chunks == DailyVolumeLimit \div ChunkAmount

\* the count is filled from a daily volume of 0 or of DailyVolumeLimit
FillStarted ==
    IF dailyTransactionCount > Chunks
    THEN TRUE
    ELSE dailyVolume # dailyTransactionCount * ChunkAmount

\* the day is filled first; calls are varied once the daily count is one
\* below MAX_DAILY_TRANSACTIONS or beyond
ProbePoint == dailyTransactionCount >= MAX_DAILY_TRANSACTIONS - 1

\* the processTransaction calls made at the cap:
\* <<type, amount, sourceAccount, destAccount>>
LimitProcessInputs ==
    {<<"DEPOSIT", FillAmount, "C", "D">>, <<"DEPOSIT", 0, "C", "D">>,
     <<"WITHDRAWAL", Units(50000), "C", "D">>,
     <<"WITHDRAWAL", Units(50000) + 1, "C", "D">>, <<"WITHDRAWAL", 0, "C", "D">>,
     <<"DEPOSIT", Units(50000) + 1, "C", "D">>, <<"REFUND", Units(10000), "C", "D">>,
     <<"REFUND", Units(10000) + 1, "C", "D">>,
     <<"REFUND", 0, "C", "D">>,
     <<"TRANSFER", Cents(1), "A", "B">>, <<"TRANSFER", Cents(1), "A", "A">>,
     <<"TRANSFER", 0, "A", "A">>, <<"TRANSFER", 0, "A", "B">>,
     <<"TRANSFER", Cents(1), "", "B">>,
     <<OtherType, Cents(1), "A", "B">>}
LimitLevelInputs == LevelInputs

\* the executeTransfer amounts tried at the cap: fixed ones, and the two
\* amounts on both sides of what is left of the daily volume limit
TransferAmounts ==
    {0 - Units(50), 0, Cents(1), Units(100000), Units(100000) + Cents(1), Units(1000000),
     DailyVolumeLimit - dailyVolume, DailyVolumeLimit - dailyVolume + 1}

\* the executeTransfer calls made at the cap: <<amount, source, destination>>
LimitTransferInputs ==
    (TransferAmounts \X {"A"} \X {"B"})
    \cup ({0 - Units(50), 0, Units(1000000)} \X {"A"} \X {"A", ""})
    \cup ({0 - Units(50), 0, Units(1000000)} \X {""} \X {"B", ""})

\* the transaction engine at its daily limits
NextLimits ==
    \/ /\ resetMark = 0
       /\ dailyTransactionCount < Chunks
       /\ dailyVolume = dailyTransactionCount * ChunkAmount
       /\ processTransaction("DEPOSIT", ChunkAmount, "C", "D", "LOW_RISK")
    \/ /\ resetMark = 0
       /\ ~ProbePoint
       /\ IF FillStarted THEN TRUE ELSE dailyVolume \in {0, DailyVolumeLimit}
       /\ processTransaction("DEPOSIT", FillAmount, "C", "D", "LOW_RISK")
    \/ \E call \in LimitProcessInputs, level \in LimitLevelInputs :
          /\ ProbePoint
          /\ Len(transactionHistory) < MAX_DAILY_TRANSACTIONS + MaxOverCap
          /\ processTransaction(call[1], call[2], call[3], call[4], level)
    \/ \E call \in LimitTransferInputs, isUrgent \in BOOLEAN :
          /\ ProbePoint
          /\ executeTransfer(call[1], call[2], call[3], isUrgent)
    \/ ProbePoint /\ resetDailyLimits
    \/ \E b \in BOOLEAN : ProbePoint /\ setSystemLocked(b)

SpecLimits == Init /\ [][NextLimits]_vars

\* the same store operations run on two stores that differ in their
\* collaborators: each call is made on store 1, then replayed on store 2
ReplayTargets == {"first", "unknown"}

\* the first account of store s, or an identifier no store knows
TargetId(s, target) ==
    IF target = "first" /\ DOMAIN accounts[s] # {}
    THEN CHOOSE id \in DOMAIN accounts[s] : TRUE
    ELSE UnknownId

\* the calls replayed: <<operation, target, first argument, second argument>>
ReplayCalls ==
    ({"createAccount"} \X {"none"} \X {0, Units(10)} \X {0})
    \cup ({"activateAccount", "deactivateAccount", "getAccount", "getAccountBalance"}
          \X ReplayTargets \X {0} \X {0})
    \cup ({"suspendAccount"} \X ReplayTargets \X ReasonInputs \X {0})
    \cup {<<"evaluateAccountRisk", target, input[1], input[2]>> :
              target \in ReplayTargets, input \in RiskInputs}
    \cup ({"updateAccountStatus"} \X ReplayTargets \X AccountStatus \X {0})
    \cup ({"verifyAccount"} \X ReplayTargets \X BOOLEAN \X {0})

\* the store operation a call stands for, made on store s
RunOn(s, call) ==
    \/ call[1] = "createAccount" /\ createAccount(s, "CHECKING", call[3])
    \/ call[1] = "activateAccount" /\ activateAccount(s, TargetId(s, call[2]))
    \/ call[1] = "suspendAccount" /\ suspendAccount(s, TargetId(s, call[2]), call[3])
    \/ call[1] = "deactivateAccount" /\ deactivateAccount(s, TargetId(s, call[2]))
    \/ call[1] = "evaluateAccountRisk"
           /\ evaluateAccountRisk(s, TargetId(s, call[2]), call[3], call[4])
    \/ call[1] = "updateAccountStatus"
           /\ updateAccountStatus(s, TargetId(s, call[2]), call[3])
    \/ call[1] = "verifyAccount" /\ verifyAccount(s, TargetId(s, call[2]), call[3])
    \/ call[1] = "getAccount" /\ getAccount(s, TargetId(s, call[2]))
    \/ call[1] = "getAccountBalance" /\ getAccountBalance(s, TargetId(s, call[2]))

\* no call is half replayed
ReplayIdle ==
    IF replay[1] = "idle" THEN TRUE ELSE replay[1] = "second" /\ op # "replay"

replayFrame ==
    UNCHANGED <<storeVars, g_complianceAuditMode, serviceVars, called, engineVars,
                g_systemLocked>>

\* the caller picks the next call of the sequence
chooseCall(call) ==
    /\ ReplayIdle
    /\ suspendedAccountCount[1] < MaxSuspendCount
    /\ call[1] = "createAccount" => DOMAIN accounts[1] = {}
    /\ op' = "replay"
    /\ ret' = "none"
    /\ replay' = <<"first", call, "none">>
    /\ replayFrame

runFirst ==
    /\ replay[1] = "first"
    /\ op = "replay"
    /\ RunOn(1, replay[2])

\* the value store 1 returned is kept for the comparison
keepReturn ==
    /\ replay[1] = "first"
    /\ op # "replay"
    /\ op' = "replay"
    /\ ret' = "none"
    /\ replay' = <<"second", replay[2], ret>>
    /\ replayFrame

runSecond ==
    /\ replay[1] = "second"
    /\ op = "replay"
    /\ RunOn(2, replay[2])

NextReplay ==
    \/ \E call \in ReplayCalls : chooseCall(call)
    \/ runFirst
    \/ keepReturn
    \/ runSecond
    \/ \E s \in Stores, b \in BOOLEAN : ReplayIdle /\ setAuthenticationService(s, b)
    \/ \E s \in Stores, b \in BOOLEAN : ReplayIdle /\ setNotificationService(s, b)
    \/ \E s \in Stores, b \in BOOLEAN : ReplayIdle /\ setExternalDataService(s, b)
    \/ \E b \in BOOLEAN : ReplayIdle /\ setComplianceAuditMode(b)

SpecReplay == Init /\ [][NextReplay]_vars

----------------------------------------------------------------------------
(* Properties *)

AcceptedStatus == {"COMPLETED", "APPROVED", "PENDING"}

\* the journal entries appended since the last resetDailyLimits
SinceReset == SubSeq(transactionHistory, resetMark + 1, Len(transactionHistory))

RECURSIVE VolumeOf(_)
VolumeOf(entries) ==
    IF entries = <<>> THEN 0
    ELSE (IF Head(entries).type \in {"DEPOSIT", "WITHDRAWAL"} THEN Head(entries).amount ELSE 0)
         + VolumeOf(Tail(entries))

\* the numeric suffix of an identifier "ACC<n>"
Suffix(id) ==
    CHOOSE n \in AccountCounterStart..(AccountCounterStart + 2 * MAX_ACCOUNTS_PER_USER + 1) :
        id = "ACC" \o ToString(n)

\* C1: once an account's stored status is CLOSED, no store operation changes
\* it to anything other than CLOSED.
C1_ClosedIsTerminal ==
    [][\A s \in Stores : \A id \in DOMAIN accounts[s] :
          accounts[s][id].status = "CLOSED" => accounts'[s][id].status = "CLOSED"]_vars

\* C2: in every state reached through store operations the suspended counter
\* equals the number of stored accounts whose status is SUSPENDED.
C2_SuspendedCountExact ==
    \A s \in Stores : suspendedAccountCount[s] = Cardinality(SuspendedAccounts(s))

\* C3: the daily transaction count equals the number of journal entries
\* appended since the last reset, and each processTransaction call adds one to
\* it exactly when it returns COMPLETED, APPROVED or PENDING; executeTransfer
\* leaves it alone.
C3_CountIsJournalSinceReset ==
    /\ [](dailyTransactionCount = Len(SinceReset))
    /\ [][/\ op' = "processTransaction" =>
               dailyTransactionCount' =
                   dailyTransactionCount + (IF ret' \in AcceptedStatus THEN 1 ELSE 0)
          /\ op' = "executeTransfer" => dailyTransactionCount' = dailyTransactionCount]_vars

C3_Witness ==
    /\ op = "processTransaction"
    /\ ret = "PENDING"
    /\ resetMark > 0
    /\ dailyTransactionCount = 2

\* C4: dailyVolume equals the sum of the amounts of the DEPOSIT and WITHDRAWAL
\* journal entries appended since the last reset; an accepted TRANSFER or
\* REFUND is journaled and counted without changing dailyVolume.
C4_VolumeIsDepositsAndWithdrawals ==
    /\ [](dailyVolume = VolumeOf(SinceReset))
    /\ [][(/\ op' = "processTransaction"
           /\ Len(transactionHistory') = Len(transactionHistory) + 1
           /\ transactionHistory'[Len(transactionHistory')].type \in {"TRANSFER", "REFUND"})
          => /\ dailyVolume' = dailyVolume
             /\ dailyTransactionCount' = dailyTransactionCount + 1]_vars

C4_Witness ==
    /\ resetMark > 0
    /\ dailyVolume = Cents(1)
    /\ \E i \in 1..Len(SinceReset) : SinceReset[i].type = "REFUND"
    /\ \E i \in 1..Len(SinceReset) : SinceReset[i].type = "WITHDRAWAL"

\* C5: every journal entry has status COMPLETED, APPROVED or PENDING, and a
\* processTransaction call that returns REJECTED or CANCELLED appends nothing.
C5_OnlyAcceptedAreJournaled ==
    /\ [](\A i \in 1..Len(transactionHistory) : transactionHistory[i].status \in AcceptedStatus)
    /\ [][(op' = "processTransaction" /\ ret' \in {"REJECTED", "CANCELLED"})
          => transactionHistory' = transactionHistory]_vars

C5_Witness ==
    /\ op = "processTransaction"
    /\ ret = "CANCELLED"
    /\ \E i \in 1..Len(transactionHistory) : transactionHistory[i].status = "PENDING"
    /\ \E i \in 1..Len(transactionHistory) : transactionHistory[i].status = "COMPLETED"

\* C6: createAccount returns the empty identifier and stores nothing when
\* initialBalance < 0.01; when initialBalance >= 0.01 and the store holds fewer
\* than 10 accounts it returns a non-empty identifier never returned before and
\* stores a new PENDING_VERIFICATION account with the given type and balance,
\* riskScore 0, unverified, without fraud alert.
C6_CreateAccountContract ==
    [][\A s \in Stores, type \in AccountType, b \in BalanceInputs :
          createAccount(s, type, b) =>
              IF b < Cents(1)
              THEN ret' = "" /\ accounts' = accounts
              ELSE Cardinality(DOMAIN accounts[s]) < 10 =>
                   /\ ret' # ""
                   /\ \A i \in 1..Len(issued) : issued[i] # ret'
                   /\ \A t \in Stores : ret' \notin DOMAIN accounts[t]
                   /\ DOMAIN accounts'[s] = DOMAIN accounts[s] \cup {ret'}
                   /\ \A id \in DOMAIN accounts[s] : accounts'[s][id] = accounts[s][id]
                   /\ \A t \in Stores \ {s} : accounts'[t] = accounts[t]
                   /\ accounts'[s][ret'].status = "PENDING_VERIFICATION"
                   /\ accounts'[s][ret'].type = type
                   /\ accounts'[s][ret'].balance = b
                   /\ accounts'[s][ret'].riskScore = 0
                   /\ accounts'[s][ret'].isVerified = FALSE
                   /\ accounts'[s][ret'].hasFraudAlert = FALSE]_vars

C6_Witness ==
    /\ op = "createAccount"
    /\ Len(issued) >= 2
    /\ ret = issued[Len(issued)]
    /\ \E s \in Stores :
          /\ ret \in DOMAIN accounts[s]
          /\ accounts[s][ret].type = "BUSINESS"
          /\ accounts[s][ret].balance = Cents(1)

\* C7: a store never holds more than 10 accounts; once it holds 10, every
\* further createAccount returns the empty identifier, whatever the balance,
\* and leaves the store unchanged.
C7_AccountCap ==
    /\ [](\A s \in Stores : Cardinality(DOMAIN accounts[s]) <= 10)
    /\ [][\A b \in {Units(10), Units(100)} :
             (Cardinality(DOMAIN accounts[MainStore]) >= 10
                 /\ createAccount(MainStore, "CHECKING", b))
             => ret' = "" /\ UNCHANGED storeVars]_vars

C7_Witness ==
    /\ op = "createAccount"
    /\ ret = ""
    /\ Cardinality(DOMAIN accounts[MainStore]) = 10
    /\ Len(issued) = 10

\* C8: every stored account's accountNumber equals its key, no two successful
\* createAccount calls on any stores return the same identifier, and the
\* numeric suffix strictly increases in creation order.
C8_UniqueIdentifiers ==
    /\ \A s \in Stores : \A k \in DOMAIN accounts[s] : accounts[s][k].accountNumber = k
    /\ \A i, j \in 1..Len(issued) : i < j => issued[i] # issued[j]
    /\ \A s, t \in Stores : s # t => DOMAIN accounts[s] \cap DOMAIN accounts[t] = {}
    /\ \A i, j \in 1..Len(issued) : i < j => Suffix(issued[i]) < Suffix(issued[j])

C8_Witness ==
    /\ Len(issued) = MaxCreated
    /\ \A s \in Stores : DOMAIN accounts[s] # {}

\* what C9 says makes activateAccount fail for a stored account
C9_Refusing(account) ==
    \/ account.status = "PENDING_VERIFICATION" /\ ~account.isVerified
    \/ account.status \in {"CLOSED", "FROZEN"}

\* C9: activateAccount returns false and changes nothing exactly when the id
\* is unknown, or the account is PENDING_VERIFICATION and unverified, or CLOSED
\* or FROZEN; otherwise it sets the status to ACTIVE and returns true.  After
\* verifyAccount(id, true) on a PENDING_VERIFICATION account the account is in
\* none of the failing cases and its status is ACTIVE.
C9_ActivateContract ==
    [][\A id \in IdInputs(MainStore) :
          /\ activateAccount(MainStore, id) =>
                IF id \notin DOMAIN accounts[MainStore] \/ C9_Refusing(accounts[MainStore][id])
                THEN ret' = FALSE /\ UNCHANGED <<storeVars, g_complianceAuditMode>>
                ELSE /\ ret' = TRUE
                     /\ accounts' = [accounts EXCEPT ![MainStore][id].status = "ACTIVE"]
          /\ (/\ id \in DOMAIN accounts[MainStore]
              /\ accounts[MainStore][id].status = "PENDING_VERIFICATION"
              /\ verifyAccount(MainStore, id, TRUE))
             => /\ ~C9_Refusing(accounts'[MainStore][id])
                /\ accounts'[MainStore][id].status = "ACTIVE"]_vars

C9_Witness ==
    /\ op = "activateAccount"
    /\ ret = TRUE
    /\ \E id \in DOMAIN accounts[MainStore] :
          accounts[MainStore][id].status = "ACTIVE" /\ ~accounts[MainStore][id].isVerified

\* C10: suspendAccount returns false and changes nothing if the id is unknown
\* or the status is CLOSED; otherwise, whatever the reason, it sets the status
\* to SUSPENDED, adds exactly 1 to the suspended counter and returns true.
C10_SuspendContract ==
    [][\A id \in IdInputs(MainStore), reason \in ReasonInputs :
          suspendAccount(MainStore, id, reason) =>
              IF id \notin DOMAIN accounts[MainStore]
                 \/ accounts[MainStore][id].status = "CLOSED"
              THEN ret' = FALSE /\ UNCHANGED <<storeVars, g_complianceAuditMode>>
              ELSE /\ ret' = TRUE
                   /\ accounts' = [accounts EXCEPT ![MainStore][id].status = "SUSPENDED"]
                   /\ suspendedAccountCount' =
                          [suspendedAccountCount EXCEPT ![MainStore] = @ + 1]]_vars

C10_Witness ==
    /\ op = "suspendAccount"
    /\ ret = TRUE
    /\ suspendedAccountCount[MainStore] = 2
    /\ Cardinality(SuspendedAccounts(MainStore)) = 1

C12_ClosedRefusesOperations ==
    [][\A id \in DOMAIN accounts[MainStore] :
          accounts[MainStore][id].status = "CLOSED" =>
              /\ (\/ activateAccount(MainStore, id)
                  \/ deactivateAccount(MainStore, id)
                  \/ \E reason \in ReasonInputs : suspendAccount(MainStore, id, reason)
                  \/ \E newStatus \in AccountStatus \ {"CLOSED"} :
                        updateAccountStatus(MainStore, id, newStatus))
                 => ret' = FALSE /\ UNCHANGED <<accounts, suspendedAccountCount>>
              /\ updateAccountStatus(MainStore, id, "CLOSED")
                 => ret' = TRUE /\ UNCHANGED <<accounts, suspendedAccountCount>>]_vars

C12_Witness ==
    /\ op = "updateAccountStatus"
    /\ ret = FALSE
    /\ \E id \in DOMAIN accounts[MainStore] :
          /\ accounts[MainStore][id].status = "CLOSED"
          /\ accounts[MainStore][id].riskScore = 75
          /\ accounts[MainStore][id].isVerified
          /\ ~accounts[MainStore][id].hasFraudAlert

\* what C13 says makes updateAccountStatus fail for a stored account
C13_Refusing(account, newStatus) ==
    \/ account.status = "CLOSED" /\ newStatus # "CLOSED"
    \/ /\ account.status = "FROZEN"
       /\ newStatus = "ACTIVE"
       /\ (~account.isVerified \/ account.hasFraudAlert)
    \/ account.status = "ACTIVE" /\ newStatus = "SUSPENDED" /\ account.riskScore < 75

\* C13: for a known account updateAccountStatus returns false and changes
\* nothing exactly when the status is CLOSED and the new status is not, or the
\* status is FROZEN, the new status ACTIVE and the account unverified or under
\* a fraud alert, or the status is ACTIVE, the new status SUSPENDED and the
\* risk score below 75; otherwise it sets the status to the new status and
\* returns true, so a non-ACTIVE account is moved to SUSPENDED whatever its
\* risk score.
C13_UpdateStatusContract ==
    [][\A id \in DOMAIN accounts[MainStore], newStatus \in AccountStatus :
          updateAccountStatus(MainStore, id, newStatus) =>
              IF C13_Refusing(accounts[MainStore][id], newStatus)
              THEN ret' = FALSE /\ UNCHANGED <<storeVars, g_complianceAuditMode>>
              ELSE /\ ret' = TRUE
                   /\ accounts' = [accounts EXCEPT ![MainStore][id].status = newStatus]]_vars

C13_Witness ==
    /\ op = "updateAccountStatus"
    /\ ret = TRUE
    /\ suspendedAccountCount[MainStore] = 1
    /\ \E id \in DOMAIN accounts[MainStore] :
          /\ accounts[MainStore][id].status = "SUSPENDED"
          /\ accounts[MainStore][id].riskScore = 0
          /\ accounts[MainStore][id].hasFraudAlert

\* C14: every successful updateAccountStatus adjusts the suspended counter by
\* +1 when the account enters SUSPENDED from another status, by -1 when it
\* leaves SUSPENDED for any other status, and by 0 otherwise.
C14_CounterFollowsTransition ==
    [][\A id \in DOMAIN accounts[MainStore], newStatus \in AccountStatus :
          (updateAccountStatus(MainStore, id, newStatus) /\ ret' = TRUE) =>
              LET oldStatus == accounts[MainStore][id].status IN
              suspendedAccountCount'[MainStore] =
                  suspendedAccountCount[MainStore]
                      + (IF oldStatus # "SUSPENDED" /\ newStatus = "SUSPENDED" THEN 1
                         ELSE IF oldStatus = "SUSPENDED" /\ newStatus # "SUSPENDED" THEN -1
                         ELSE 0)]_vars

\* the score and the decision as C15 states them
C15_Score(isVerified, hasFraudAlert, transactionCount, volumeLastDay) ==
    LET frequency == CASE transactionCount > 100 -> 30
                       [] transactionCount > 50 /\ transactionCount <= 100 -> 15
                       [] transactionCount > 20 /\ transactionCount <= 50 -> 5
                       [] OTHER -> 0
        volume == CASE volumeLastDay > 1000000 * Scale -> 40
                    [] volumeLastDay > 500000 * Scale /\ volumeLastDay <= 1000000 * Scale -> 20
                    [] volumeLastDay > 100000 * Scale /\ volumeLastDay <= 500000 * Scale -> 10
                    [] OTHER -> 0
        flags == CASE ~isVerified /\ hasFraudAlert -> 35
                   [] ~isVerified /\ ~hasFraudAlert -> 20
                   [] isVerified /\ hasFraudAlert -> 25
                   [] OTHER -> 0
    IN  frequency + volume + flags

C15_Decision(score, auditMode) ==
    CASE score >= 75 /\ auditMode -> "FROZEN"
      [] score >= 75 /\ ~auditMode -> "SUSPENDED"
      [] score > 50 /\ score < 75 -> "PENDING_VERIFICATION"
      [] OTHER -> "ACTIVE"

\* transaction counts and volumes on both sides of every band limit
C15_Counts == {0, 20, 21, 50, 51, 100, 101}
C15_Volumes == {0, Units(100000), Units(100000) + 1, Units(500000), Units(500000) + 1,
                Units(1000000), Units(1000000) + 1}

\* C15: for a known account evaluateAccountRisk returns the decision for
\* score = frequency band + volume band + flag band: FROZEN if score >= 75 and
\* the compliance-audit flag is set, SUSPENDED if score >= 75 and the flag is
\* clear, PENDING_VERIFICATION if 50 < score < 75, ACTIVE otherwise; the
\* account's current status does not influence the result.
C15_RiskDecision ==
    /\ [](\A id \in DOMAIN accounts[MainStore], tc \in C15_Counts, vol \in C15_Volumes :
            RiskScore(accounts[MainStore][id], tc, vol)
                = C15_Score(accounts[MainStore][id].isVerified,
                            accounts[MainStore][id].hasFraudAlert, tc, vol))
    /\ [][\A id \in DOMAIN accounts[MainStore], call \in RiskInputs :
             evaluateAccountRisk(MainStore, id, call[1], call[2]) =>
                 ret' = C15_Decision(C15_Score(accounts[MainStore][id].isVerified,
                                               accounts[MainStore][id].hasFraudAlert,
                                               call[1], call[2]),
                                     g_complianceAuditMode)]_vars

C15_Witness ==
    /\ op = "evaluateAccountRisk"
    /\ ret = "PENDING_VERIFICATION"
    /\ \E id \in DOMAIN accounts[MainStore] :
          /\ accounts[MainStore][id].status = "CLOSED"
          /\ accounts[MainStore][id].isVerified
          /\ accounts[MainStore][id].hasFraudAlert

\* C16: when evaluateAccountRisk computes a score below 75 it returns
\* PENDING_VERIFICATION or ACTIVE and changes no stored state (status,
\* isVerified, riskScore, suspended counter), so the same call on the state
\* it leaves returns the same value.
C16_LowScoreChangesNothing ==
    [][\A id \in DOMAIN accounts[MainStore], call \in RiskInputs :
          (/\ evaluateAccountRisk(MainStore, id, call[1], call[2])
           /\ C15_Score(accounts[MainStore][id].isVerified,
                        accounts[MainStore][id].hasFraudAlert, call[1], call[2]) < 75)
          => /\ ret' \in {"PENDING_VERIFICATION", "ACTIVE"}
             /\ UNCHANGED <<storeVars, g_complianceAuditMode>>
             /\ ret' = C15_Decision(C15_Score(accounts'[MainStore][id].isVerified,
                                              accounts'[MainStore][id].hasFraudAlert,
                                              call[1], call[2]),
                                    g_complianceAuditMode')]_vars

C16_Witness ==
    /\ op = "evaluateAccountRisk"
    /\ ret = "PENDING_VERIFICATION"
    /\ suspendedAccountCount[MainStore] = 1
    /\ \E id \in DOMAIN accounts[MainStore] :
          /\ accounts[MainStore][id].status = "SUSPENDED"
          /\ accounts[MainStore][id].riskScore = 74

\* C17: when evaluateAccountRisk computes a score >= 75, with the
\* compliance-audit flag set it stores the status FROZEN and leaves the
\* suspended counter unchanged; with the flag clear it stores the status
\* SUSPENDED and adds exactly 1 to the suspended counter, on each such call.
C17_HighScoreStoresDecision ==
    [][\A id \in DOMAIN accounts[MainStore], call \in RiskInputs :
          (/\ evaluateAccountRisk(MainStore, id, call[1], call[2])
           /\ C15_Score(accounts[MainStore][id].isVerified,
                        accounts[MainStore][id].hasFraudAlert, call[1], call[2]) >= 75)
          => IF g_complianceAuditMode
             THEN /\ accounts' = [accounts EXCEPT ![MainStore][id].status = "FROZEN"]
                  /\ UNCHANGED suspendedAccountCount
             ELSE /\ accounts' = [accounts EXCEPT ![MainStore][id].status = "SUSPENDED"]
                  /\ suspendedAccountCount' =
                         [suspendedAccountCount EXCEPT ![MainStore] = @ + 1]]_vars

C17_Witness ==
    /\ op = "evaluateAccountRisk"
    /\ ret = "SUSPENDED"
    /\ suspendedAccountCount[MainStore] = 2
    /\ Cardinality(SuspendedAccounts(MainStore)) = 1
    /\ Cardinality(DOMAIN accounts[MainStore]) = 1

\* C18: for a known account verifyAccount(id, result) returns true if and only
\* if result is true and the status at the call is PENDING_VERIFICATION, and
\* in exactly that case the status becomes ACTIVE; in every other case it
\* returns false and the status is unchanged.
C18_VerifyActivatesPendingOnly ==
    [][\A id \in DOMAIN accounts[MainStore], result \in BOOLEAN :
          verifyAccount(MainStore, id, result) =>
              IF result /\ accounts[MainStore][id].status = "PENDING_VERIFICATION"
              THEN ret' = TRUE /\ accounts'[MainStore][id].status = "ACTIVE"
              ELSE /\ ret' = FALSE
                   /\ accounts'[MainStore][id].status = accounts[MainStore][id].status]_vars

C18_Witness ==
    /\ op = "verifyAccount"
    /\ ret = TRUE
    /\ \E id \in DOMAIN accounts[MainStore] :
          /\ accounts[MainStore][id].status = "ACTIVE"
          /\ accounts[MainStore][id].isVerified
          /\ accounts[MainStore][id].hasFraudAlert

\* C19: for a known account in any status verifyAccount(id, result) sets
\* isVerified to result, also when the call returns false; it never changes
\* the balance, riskScore, hasFraudAlert or the suspended counter.
C19_VerifyAlwaysStoresResult ==
    [][\A id \in DOMAIN accounts[MainStore], result \in BOOLEAN :
          verifyAccount(MainStore, id, result) =>
              /\ accounts'[MainStore][id].isVerified = result
              /\ accounts'[MainStore][id].balance = accounts[MainStore][id].balance
              /\ accounts'[MainStore][id].riskScore = accounts[MainStore][id].riskScore
              /\ accounts'[MainStore][id].hasFraudAlert = accounts[MainStore][id].hasFraudAlert
              /\ UNCHANGED suspendedAccountCount]_vars

C19_Witness ==
    /\ op = "verifyAccount"
    /\ ret = FALSE
    /\ \E id \in DOMAIN accounts[MainStore] :
          /\ accounts[MainStore][id].status = "FROZEN"
          /\ accounts[MainStore][id].isVerified
          /\ accounts[MainStore][id].balance < 0
          /\ accounts[MainStore][id].riskScore = 75

\* what C20 says an operation called with an unknown identifier leaves alone
C20_NothingTouched ==
    /\ UNCHANGED <<storeVars, g_complianceAuditMode, serviceVars>>
    /\ called' = <<>>

\* C20: every store operation called with an unknown account identifier
\* reports not-found by value and changes nothing: activateAccount,
\* suspendAccount, deactivateAccount, updateAccountStatus and verifyAccount
\* return false, evaluateAccountRisk returns CLOSED, getAccountBalance returns
\* -1, getAccount returns the null pointer; no account, the suspended counter
\* nor any collaborator is touched.
C20_UnknownIdentifier ==
    [][\A id \in IdInputs(MainStore) \ DOMAIN accounts[MainStore] :
          /\ (\/ activateAccount(MainStore, id)
              \/ \E reason \in ReasonInputs : suspendAccount(MainStore, id, reason)
              \/ deactivateAccount(MainStore, id)
              \/ \E newStatus \in AccountStatus : updateAccountStatus(MainStore, id, newStatus)
              \/ \E result \in BOOLEAN : verifyAccount(MainStore, id, result))
             => ret' = FALSE /\ C20_NothingTouched
          /\ (\E tc \in TransactionCountInputs, vol \in VolumeInputs :
                 evaluateAccountRisk(MainStore, id, tc, vol))
             => ret' = "CLOSED" /\ C20_NothingTouched
          /\ getAccountBalance(MainStore, id)
             => ret' = 0 - 1 * Scale /\ C20_NothingTouched
          /\ getAccount(MainStore, id)
             => ret' = <<>> /\ C20_NothingTouched]_vars

C20_Witness ==
    /\ op = "verifyAccount"
    /\ ret = FALSE
    /\ called = <<>>
    /\ dataService[MainStore]
    /\ notificationService[MainStore]
    /\ DOMAIN accounts[MainStore] # {}

\* C21: validateTransaction(amount, type) returns false exactly when
\* amount < 0.01, or amount > 1,000,000, or the type is WITHDRAWAL and
\* amount > 50,000, or the type is REFUND and amount > 10,000, and true
\* otherwise; 0.01, 1,000,000, 50,000 (WITHDRAWAL) and 10,000 (REFUND) are
\* accepted; the call changes no engine state.
C21_ValidateContract ==
    [][\A amount \in ValidateAmounts, type \in TransactionType \cup {OtherType} :
          callValidateTransaction(amount, type) =>
              /\ ret' = ~(\/ amount < Scale \div 100
                          \/ amount > 1000000 * Scale
                          \/ type = "WITHDRAWAL" /\ amount > 50000 * Scale
                          \/ type = "REFUND" /\ amount > 10000 * Scale)
              /\ (\/ amount = Scale \div 100
                  \/ amount = 1000000 * Scale /\ type \notin {"WITHDRAWAL", "REFUND"}
                  \/ amount = 50000 * Scale /\ type = "WITHDRAWAL"
                  \/ amount = 10000 * Scale /\ type = "REFUND") => ret' = TRUE
              /\ UNCHANGED <<engineVars, g_systemLocked>>]_vars

C21_Witness ==
    /\ op = "validateTransaction"
    /\ ret = TRUE
    /\ transactionHistory # <<>>
    /\ dailyVolume > 0

\* C22: executeTransfer returns REJECTED whenever the source or the
\* destination is empty, whatever the amount, urgency, lock flag and counters;
\* with a non-empty source equal to the destination it returns REJECTED when
\* amount > 0 and CANCELLED when amount <= 0, again whatever the urgency, lock
\* flag and counters.
C22_TransferAccountRules ==
    [][\A call \in LimitTransferInputs, isUrgent \in BOOLEAN :
          executeTransfer(call[1], call[2], call[3], isUrgent) =>
              /\ (call[2] = "" \/ call[3] = "") => ret' = "REJECTED"
              /\ (call[2] # "" /\ call[2] = call[3])
                 => ret' = IF call[1] > 0 THEN "REJECTED" ELSE "CANCELLED"]_vars

C22_Witness ==
    /\ op = "executeTransfer"
    /\ ret = "CANCELLED"
    /\ g_systemLocked
    /\ dailyTransactionCount >= 1000
    /\ dailyVolume > 5000000 * Scale

\* the urgent pre-screen of C23 rejects the transfer
C23_PreScreenRejects(amount, isUrgent) ==
    /\ isUrgent
    /\ amount > 100000 * Scale
    /\ \/ dailyTransactionCount >= 1000
       \/ dailyVolume + amount > 5000000 * Scale

\* C23: for non-empty, distinct source and destination, an urgent transfer
\* of more than 100,000 is REJECTED if the daily count is >= 1000 or
\* dailyVolume + amount > 5,000,000, also while the system lock is set;
\* otherwise, while the lock is set, executeTransfer returns PENDING for a
\* non-urgent and APPROVED for an urgent transfer, whatever the amount, the
\* daily count and the daily volume.
C23_UrgentPreScreenThenLock ==
    [][\A call \in TransferAmounts \X {"A"} \X {"B"}, isUrgent \in BOOLEAN :
          executeTransfer(call[1], call[2], call[3], isUrgent) =>
              IF C23_PreScreenRejects(call[1], isUrgent)
              THEN ret' = "REJECTED"
              ELSE g_systemLocked => ret' = IF isUrgent THEN "APPROVED" ELSE "PENDING"]_vars

C23_Witness ==
    /\ op = "executeTransfer"
    /\ ret = "APPROVED"
    /\ g_systemLocked
    /\ dailyTransactionCount > 1000
    /\ dailyVolume > 5000000 * Scale

\* C24: for non-empty, distinct source and destination, with the system lock
\* clear and the urgent pre-screen not rejecting, executeTransfer returns
\* COMPLETED if amount > 0, the daily count < 1000 and
\* dailyVolume + amount <= 5,000,000; APPROVED if amount > 0, the daily
\* count < 1000 and dailyVolume + amount > 5,000,000; PENDING if amount > 0
\* and the daily count >= 1000; CANCELLED if amount <= 0.
C24_FinalDecision ==
    [][\A call \in TransferAmounts \X {"A"} \X {"B"}, isUrgent \in BOOLEAN :
          (/\ executeTransfer(call[1], call[2], call[3], isUrgent)
           /\ ~g_systemLocked
           /\ ~C23_PreScreenRejects(call[1], isUrgent))
          => ret' = CASE call[1] > 0 /\ dailyTransactionCount < 1000
                         /\ dailyVolume + call[1] <= 5000000 * Scale -> "COMPLETED"
                      [] call[1] > 0 /\ dailyTransactionCount < 1000
                         /\ dailyVolume + call[1] > 5000000 * Scale -> "APPROVED"
                      [] call[1] > 0 /\ dailyTransactionCount >= 1000 -> "PENDING"
                      [] call[1] <= 0 -> "CANCELLED"]_vars

C24_Witness ==
    /\ op = "executeTransfer"
    /\ ret = "APPROVED"
    /\ ~g_systemLocked
    /\ dailyTransactionCount = 999
    /\ dailyVolume < 5000000 * Scale

\* C25: processTransaction returns REJECTED whenever
\* validateTransaction(amount, type) is false, and every processTransaction
\* call that returns REJECTED or CANCELLED (validation, compliance, cap or
\* transfer rule) leaves dailyVolume, the daily count, the journal and the
\* transaction id counter unchanged.
C25_RefusalChangesNothing ==
    [][\A call \in LimitProcessInputs, level \in LimitLevelInputs :
          processTransaction(call[1], call[2], call[3], call[4], level) =>
              /\ ~validateTransaction(call[2], call[1]) => ret' = "REJECTED"
              /\ ret' \in {"REJECTED", "CANCELLED"} =>
                     UNCHANGED <<dailyVolume, dailyTransactionCount,
                                 transactionHistory, transactionCounter>>]_vars

C25_Witness ==
    /\ op = "processTransaction"
    /\ ret = "REJECTED"
    /\ dailyTransactionCount >= MAX_DAILY_TRANSACTIONS
    /\ dailyVolume > 0
    /\ Len(transactionHistory) = dailyTransactionCount
    /\ transactionCounter = 1000 + Len(transactionHistory)

\* C26: with a compliance collaborator attached, a validated
\* processTransaction returns REJECTED if the compliance level of the source
\* account is BLOCKED, or is HIGH_RISK with amount > 50,000; for every other
\* level/amount combination (LOW_RISK, MEDIUM_RISK, HIGH_RISK with
\* amount <= 50,000) the result and the state change are the same as with no
\* compliance collaborator attached.
C26_ComplianceGate ==
    [][\A call \in LimitProcessInputs, level \in ComplianceLevel :
          (/\ processTransaction(call[1], call[2], call[3], call[4], level)
           /\ validateTransaction(call[2], call[1]))
          => IF \/ level = "BLOCKED"
                \/ level = "HIGH_RISK" /\ call[2] > 50000 * Scale
             THEN ret' = "REJECTED"
             ELSE processTransaction(call[1], call[2], call[3], call[4], NoService)]_vars

C26_Witness ==
    /\ op = "processTransaction"
    /\ ret = "COMPLETED"
    /\ transactionHistory # <<>>
    /\ LET last == transactionHistory[Len(transactionHistory)] IN
           /\ last.type = "WITHDRAWAL"
           /\ last.amount = 50000 * Scale
           /\ last.status = "COMPLETED"

\* C27: a DEPOSIT or WITHDRAWAL that passes validation and compliance returns
\* COMPLETED if the daily count before the call is below 1000, and then
\* dailyVolume increases by exactly amount, the daily count by exactly 1 and
\* one journal entry is appended; if the daily count is already at or above
\* 1000 it returns REJECTED and nothing changes.  The 5,000,000 daily volume
\* limit is not consulted on this path.
C27_Calls ==
    LimitProcessInputs
    \cup {<<"DEPOSIT", ChunkAmount, "C", "D">>, <<"DEPOSIT", FillAmount, "C", "D">>}

C27_DepositWithdrawalCap ==
    [][\A call \in C27_Calls, level \in LevelInputs :
          (/\ processTransaction(call[1], call[2], call[3], call[4], level)
           /\ call[1] \in {"DEPOSIT", "WITHDRAWAL"}
           /\ validateTransaction(call[2], call[1])
           /\ level # "BLOCKED"
           /\ ~(level = "HIGH_RISK" /\ call[2] > 50000 * Scale))
          => IF dailyTransactionCount < 1000
             THEN /\ ret' = "COMPLETED"
                  /\ dailyVolume' = dailyVolume + call[2]
                  /\ dailyTransactionCount' = dailyTransactionCount + 1
                  /\ Len(transactionHistory') = Len(transactionHistory) + 1
                  /\ SubSeq(transactionHistory', 1, Len(transactionHistory))
                         = transactionHistory
                  /\ LET entry == transactionHistory'[Len(transactionHistory')] IN
                         /\ entry.type = call[1]
                         /\ entry.amount = call[2]
                         /\ entry.status = "COMPLETED"
             ELSE /\ ret' = "REJECTED"
                  /\ UNCHANGED engineVars]_vars

C27_Witness ==
    /\ op = "processTransaction"
    /\ ret = "COMPLETED"
    /\ dailyTransactionCount = 1000
    /\ dailyVolume > 5000000 * Scale
    /\ Len(transactionHistory) = 1000
    /\ transactionHistory[1000].type = "DEPOSIT"

\* C28: transaction ids are strictly increasing in journal order and never
\* repeat: each accepted processTransaction takes a fresh id larger than every
\* id issued before in the process, and resetDailyLimits does not reset or
\* reuse ids; rejected or cancelled calls consume no id.
C28_IdsIncrease ==
    /\ \A i, j \in 1..Len(transactionHistory) :
           i < j => transactionHistory[i].id < transactionHistory[j].id
    /\ \A i \in 1..Len(transactionHistory) :
           transactionHistory[i].id <= transactionCounter

C28_FreshIds ==
    /\ []C28_IdsIncrease
    /\ [][/\ op' = "processTransaction" /\ ret' \in {"COMPLETED", "APPROVED", "PENDING"}
             => /\ transactionCounter' > transactionCounter
                /\ Len(transactionHistory') = Len(transactionHistory) + 1
                /\ transactionHistory'[Len(transactionHistory')].id = transactionCounter'
          /\ op' = "processTransaction" /\ ret' \in {"REJECTED", "CANCELLED"}
             => UNCHANGED transactionCounter
          /\ op' = "resetDailyLimits" => UNCHANGED transactionCounter]_vars

C28_Witness ==
    /\ op = "processTransaction"
    /\ ret \in {"COMPLETED", "APPROVED", "PENDING"}
    /\ resetMark >= 1
    /\ Len(transactionHistory) > resetMark
    /\ transactionHistory[Len(transactionHistory)].id
           > transactionHistory[resetMark].id

\* C29: resetDailyLimits() returns true from every reachable state and
\* afterwards getDailyVolume() = 0 and getTransactionCount() = 0, while the
\* journal history (its entries and their order) and the transaction id
\* counter are left unchanged.
C29_ResetClearsDayOnly ==
    /\ [](ENABLED resetDailyLimits)
    /\ [][op' = "resetDailyLimits" =>
             /\ ret' = TRUE
             /\ dailyVolume' = 0
             /\ dailyTransactionCount' = 0
             /\ UNCHANGED <<transactionHistory, transactionCounter>>]_vars

C29_Witness ==
    /\ op = "resetDailyLimits"
    /\ ret = TRUE
    /\ dailyVolume = 0
    /\ dailyTransactionCount = 0
    /\ Len(transactionHistory) = MaxJournal
    /\ transactionCounter = 1000 + MaxJournal

\* C30: in every state reachable through store operations the balance of each
\* stored account equals the balance it was created with and is >= 0.01, so
\* getAccountBalance never returns a negative value for a known account and
\* -1 is returned exactly for unknown identifiers.
C30_BalancesAtLeastMinimum ==
    \A s \in Stores : \A id \in DOMAIN accounts[s] :
        100 * accounts[s][id].balance >= Scale

C30_BalanceKept ==
    /\ \A s \in Stores : \A id \in DOMAIN accounts[s] :
           /\ id \in DOMAIN accounts'[s]
           /\ accounts'[s][id].balance = accounts[s][id].balance
    /\ \A initialBalance \in ServiceBalances :
           (createAccount(MainStore, "CHECKING", initialBalance) /\ ret' # EmptyId)
           => accounts'[MainStore][ret'].balance = initialBalance
    /\ \A id \in IdInputs(MainStore) :
           getAccountBalance(MainStore, id) =>
               /\ Known(MainStore, id) => ret' = accounts[MainStore][id].balance /\ ret' >= 0
               /\ ret' = 0 - Scale <=> ~Known(MainStore, id)

C30_BalanceNeverNegative ==
    /\ []C30_BalancesAtLeastMinimum
    /\ [][C30_BalanceKept]_vars

C30_Witness ==
    /\ op = "getAccountBalance"
    /\ ret = Scale \div 100
    /\ \E id \in DOMAIN accounts[MainStore] :
           /\ accounts[MainStore][id].balance = ret
           /\ accounts[MainStore][id].status = "CLOSED"

\* C31: the daily transaction journal is bounded by the daily cap: in every
\* state reachable by any sequence of processTransaction calls (all four
\* types, system lock set or clear) since the last reset,
\* getTransactionCount() never exceeds MAX_DAILY_TRANSACTIONS (1000).
C31_CountWithinCap ==
    dailyTransactionCount <= 1000

\* C32: the PENDING branches for WITHDRAWAL and REFUND in processTransaction
\* are unreachable: for every amount, daily count and compliance outcome,
\* processTransaction never returns PENDING for a WITHDRAWAL (only COMPLETED
\* or REJECTED) nor for a REFUND (only COMPLETED or REJECTED), and no journal
\* entry of type WITHDRAWAL or REFUND has status PENDING.
C32_NoPendingEntry ==
    \A i \in 1..Len(transactionHistory) :
        transactionHistory[i].type \in {"WITHDRAWAL", "REFUND"}
            => transactionHistory[i].status # "PENDING"

C32_PendingUnreachable ==
    /\ []C32_NoPendingEntry
    /\ [][op' = "processTransaction" =>
             \A call \in LimitProcessInputs, level \in LimitLevelInputs :
                 (/\ call[1] \in {"WITHDRAWAL", "REFUND"}
                  /\ processTransaction(call[1], call[2], call[3], call[4], level))
                 => ret' \in {"COMPLETED", "REJECTED"}]_vars

C32_Witness ==
    /\ op = "processTransaction"
    /\ ret = "COMPLETED"
    /\ dailyTransactionCount > 1000
    /\ LET last == transactionHistory[Len(transactionHistory)] IN
           /\ last.type = "REFUND"
           /\ last.amount = 10000 * Scale
           /\ last.status = "COMPLETED"

\* how many times the call sequence names the collaborator method
C33_Times(calls, method) ==
    Cardinality({i \in 1..Len(calls) : calls[i] = method})

\* 1 if the condition holds, else 0
C33_Once(condition) == IF condition THEN 1 ELSE 0

\* C33: verifyAccount sends the verification email notification only on
\* success: with a Notification collaborator attached, exactly one email is
\* sent per call in which result is true on a known account, none when result
\* is false or the id is unknown; with a data collaborator attached the
\* identity-status and credit-score lookups are each made exactly once per
\* call on a known account.
C33_VerifyNotifiesOnSuccess ==
    [][op' = "verifyAccount" =>
          \A id \in IdInputs(MainStore), result \in BOOLEAN :
              verifyAccount(MainStore, id, result) =>
                  /\ C33_Times(called', "sendEmailNotification")
                         = C33_Once(/\ notificationService[MainStore]
                                    /\ result
                                    /\ id \in DOMAIN accounts[MainStore])
                  /\ C33_Times(called', "getIdentityVerificationStatus")
                         = C33_Once(dataService[MainStore] /\ id \in DOMAIN accounts[MainStore])
                  /\ C33_Times(called', "getCreditScore")
                         = C33_Once(dataService[MainStore] /\ id \in DOMAIN accounts[MainStore])]_vars

C33_Witness ==
    /\ op = "verifyAccount"
    /\ ret = FALSE
    /\ called = <<"getIdentityVerificationStatus", "getCreditScore", "sendEmailNotification">>
    /\ \E id \in DOMAIN accounts[MainStore] :
           /\ accounts[MainStore][id].isVerified
           /\ accounts[MainStore][id].status = "SUSPENDED"

\* the call chosen last has been made on both stores
C34_Compared == replay[1] = "second" /\ op = replay[2][1]

\* the stored accounts of the two stores agree in every field but the identifier
C34_SameAccounts ==
    /\ Cardinality(DOMAIN accounts[1]) = Cardinality(DOMAIN accounts[2])
    /\ \A id1 \in DOMAIN accounts[1], id2 \in DOMAIN accounts[2] :
           [accounts[1][id1] EXCEPT !.accountNumber = EmptyId]
               = [accounts[2][id2] EXCEPT !.accountNumber = EmptyId]

\* store 2 returned what store 1 returned (an identifier or pointer of its own
\* account where store 1 returned one of its own)
C34_SameReturn ==
    IF op = "createAccount"
    THEN /\ ret = EmptyId <=> replay[3] = EmptyId
         /\ ret # EmptyId => ret \in DOMAIN accounts[2] /\ replay[3] \in DOMAIN accounts[1]
    ELSE IF op = "getAccount"
    THEN ret = NullPtr <=> replay[3] = NullPtr
    ELSE ret = replay[3]

\* C34: account-store outcomes do not depend on collaborators: for the same
\* sequence of store operations, two stores that differ only in which
\* Authentication/Notification/ExternalData collaborators are attached (or
\* absent) and in what those collaborators return produce the same return
\* values and the same stored account states and suspended counter.
C34_CollaboratorsDoNotMatter ==
    C34_Compared =>
        /\ C34_SameReturn
        /\ C34_SameAccounts
        /\ suspendedAccountCount[1] = suspendedAccountCount[2]

C34_Witness ==
    /\ C34_Compared
    /\ op = "evaluateAccountRisk"
    /\ ret = "SUSPENDED"
    /\ replay[3] = "SUSPENDED"
    /\ authService[1] /\ notificationService[1] /\ dataService[1]
    /\ ~authService[2] /\ ~notificationService[2] /\ ~dataService[2]
    /\ suspendedAccountCount[1] = 1
    /\ suspendedAccountCount[2] = 1

\* C35: in every state reachable through store operations only, the suspended
\* counter never under-counts and is never negative:
\* getSuspendedAccountCount() >= the number of stored accounts whose status is
\* SUSPENDED >= 0.
C35_CounterNeverUnderCounts ==
    \A s \in Stores :
        /\ suspendedAccountCount[s] >= Cardinality(SuspendedAccounts(s))
        /\ suspendedAccountCount[s] >= 0

C35_Witness ==
    /\ op = "updateAccountStatus"
    /\ ret = TRUE
    /\ suspendedAccountCount[MainStore] = 1
    /\ Cardinality(SuspendedAccounts(MainStore)) = 1
    /\ \E id \in DOMAIN accounts[MainStore] : accounts[MainStore][id].status = "ACTIVE"

\* every stored account still has the riskScore and hasFraudAlert it was
\* created with
C36_ScoreAndAlertAsCreated ==
    \A s \in Stores : \A id \in DOMAIN accounts[s] :
        /\ accounts[s][id].riskScore = 0
        /\ accounts[s][id].hasFraudAlert = FALSE

\* C36: no store operation writes an account's riskScore or hasFraudAlert
\* after creation (evaluateAccountRisk keeps its score in a local only), so in
\* every state reachable through store operations alone riskScore = 0 and
\* hasFraudAlert = false, and updateAccountStatus(id, SUSPENDED) on an ACTIVE
\* account always returns false.
C36_ScoreNeverStored ==
    /\ []C36_ScoreAndAlertAsCreated
    /\ [][op' = "updateAccountStatus" =>
             \A id \in DOMAIN accounts[MainStore] :
                 (/\ accounts[MainStore][id].status = "ACTIVE"
                  /\ updateAccountStatus(MainStore, id, "SUSPENDED"))
                 => ret' = FALSE /\ UNCHANGED <<accounts, suspendedAccountCount>>]_vars

C36_Witness ==
    /\ op = "updateAccountStatus"
    /\ ret = FALSE
    /\ g_totalAccountsCreated = MaxAccounts
    /\ \A id \in DOMAIN accounts[MainStore] : accounts[MainStore][id].status = "ACTIVE"

\* C37: for an account that is verified and has no fraud alert,
\* evaluateAccountRisk never returns FROZEN or SUSPENDED and never changes the
\* stored status or the suspended counter, for every transactionCount and
\* volumeLastDay and either value of the compliance-audit flag (the maximum
\* attainable score is 30 + 40 = 70 < 75).
C37_VerifiedNeverSuspended ==
    [][op' = "evaluateAccountRisk" =>
          \A id \in DOMAIN accounts[MainStore],
             tc \in TransactionCountInputs, vol \in VolumeInputs :
              (/\ accounts[MainStore][id].isVerified
               /\ ~accounts[MainStore][id].hasFraudAlert
               /\ evaluateAccountRisk(MainStore, id, tc, vol))
              => /\ ret' \notin {"FROZEN", "SUSPENDED"}
                 /\ UNCHANGED <<accounts, suspendedAccountCount>>]_vars

C37_Witness ==
    /\ op = "evaluateAccountRisk"
    /\ ret = "PENDING_VERIFICATION"
    /\ g_complianceAuditMode
    /\ DOMAIN accounts[MainStore] # {}
    /\ \A id \in DOMAIN accounts[MainStore] :
           accounts[MainStore][id].isVerified /\ ~accounts[MainStore][id].hasFraudAlert

\* C38: through store operations alone deactivateAccount never succeeds (no
\* operation lowers a balance, which is >= 0.01 from creation), so the only
\* store-mediated way for an account to enter CLOSED is
\* updateAccountStatus(id, CLOSED), which succeeds from every status.
C38_ClosedOnlyByUpdate ==
    [][/\ op' = "deactivateAccount" => ret' = FALSE /\ UNCHANGED accounts
       /\ (\E s \in Stores : \E id \in DOMAIN accounts[s] :
               /\ accounts[s][id].status # "CLOSED"
               /\ accounts'[s][id].status = "CLOSED")
          => op' = "updateAccountStatus" /\ ret' = TRUE
       /\ op' = "updateAccountStatus" =>
              \A id \in DOMAIN accounts[MainStore] :
                  updateAccountStatus(MainStore, id, "CLOSED")
                  => ret' = TRUE /\ accounts'[MainStore][id].status = "CLOSED"]_vars

C38_Witness ==
    /\ op = "deactivateAccount"
    /\ ret = FALSE
    /\ g_totalAccountsCreated = MaxAccounts
    /\ \A id \in DOMAIN accounts[MainStore] :
           accounts[MainStore][id].status \in {"ACTIVE", "FROZEN"}

\* C39: a direct call of executeTransfer is a pure query: whatever status it
\* returns (including COMPLETED), it leaves dailyVolume, the daily count, the
\* journal and the transaction id counter unchanged; only processTransaction
\* records a transfer.
C39_TransferIsQuery ==
    [][/\ op' = "executeTransfer" =>
              /\ ret' \in TransactionStatus
              /\ UNCHANGED <<dailyVolume, dailyTransactionCount, transactionHistory,
                             transactionCounter>>
       /\ transactionHistory' # transactionHistory => op' = "processTransaction"]_vars

C39_Witness ==
    /\ op = "executeTransfer"
    /\ ret = "COMPLETED"
    /\ dailyTransactionCount = 999
    /\ Len(transactionHistory) = 999
    /\ dailyVolume = 999 * Scale
    /\ transactionCounter = 1000 + 999

\* C40: processTransaction returns CANCELLED only for an unrecognized
\* transaction type: for each of DEPOSIT, WITHDRAWAL, TRANSFER and REFUND, and
\* every amount, account pair, lock flag, compliance outcome and counter
\* state, the result is never CANCELLED (a TRANSFER reaching executeTransfer
\* always has amount > 0).
C40_CancelledOnlyForOtherType ==
    [][op' = "processTransaction" =>
          \A call \in LimitProcessInputs, level \in LimitLevelInputs :
              (/\ call[1] \in {"DEPOSIT", "WITHDRAWAL", "TRANSFER", "REFUND"}
               /\ processTransaction(call[1], call[2], call[3], call[4], level))
              => ret' # "CANCELLED"]_vars

C40_Witness ==
    /\ op = "processTransaction"
    /\ ret = "CANCELLED"
    /\ g_systemLocked
    /\ dailyTransactionCount > 1000

====
